---------------------------- MODULE Spec2Model ----------------------------
(***************************************************************************)
(* Model of the Confluence scraper's core: the structural parser           *)
(* (ConfluenceParser, advanced-confluence-parser.js) and the chunker       *)
(* (extractVectorContent / processTable, src/index.ts).                    *)
(*                                                                         *)
(* A JavaScript string is a sequence of tokens.  A token is either one     *)
(* whitespace character (" " or "\n") or a run of non-whitespace           *)
(* characters; TokLen gives the number of characters a token stands for,   *)
(* so that String.length, trim and split("\n\n") are computed on the       *)
(* characters the code sees while paragraphs of more than 1000 characters  *)
(* stay representable.                                                     *)
(*                                                                         *)
(* A markup tree (the value node-html-parser's parse returns) is a nested  *)
(* record [tag, attrs, kids, text]; a node reference is the path of child  *)
(* indices that leads from the root to the node.                           *)
(***************************************************************************)
EXTENDS Integers, Sequences, FiniteSets, TLC

(***************************************************************************)
(* Strings                                                                 *)
(***************************************************************************)
NL == "\n"
SP == " "

IsSpace(t) == t \in {SP, NL}

\* Number of characters of a token: the long runs stand for that many
\* non-whitespace characters, every other token used as text is spelled out.
TokLen(t) ==
  CASE t = "w499"  -> 499
    [] t = "w998"  -> 998
    [] t = "w999"  -> 999
    [] t = "w1500" -> 1500
    [] t = "Table" -> 5
    [] t = "Headers:" -> 8
    [] t = "Row:" -> 4
    [] OTHER -> 1

RECURSIVE StrLen(_)
StrLen(s) == IF s = <<>> THEN 0 ELSE TokLen(Head(s)) + StrLen(Tail(s))

RECURSIVE TrimStart(_)
TrimStart(s) ==
  IF s = <<>> THEN <<>>
  ELSE IF IsSpace(Head(s)) THEN TrimStart(Tail(s)) ELSE s

RECURSIVE TrimEnd(_)
TrimEnd(s) ==
  IF s = <<>> THEN <<>>
  ELSE IF IsSpace(s[Len(s)]) THEN TrimEnd(SubSeq(s, 1, Len(s) - 1)) ELSE s

\* String.prototype.trim
Trim(s) == TrimEnd(TrimStart(s))

\* String.prototype.split("\n\n"): the pieces between the non-overlapping
\* occurrences of two consecutive newlines, found left to right.
RECURSIVE SplitFrom(_, _)
SplitFrom(s, cur) ==
  IF s = <<>> THEN <<cur>>
  ELSE IF Len(s) >= 2 /\ s[1] = NL /\ s[2] = NL
       THEN <<cur>> \o SplitFrom(SubSeq(s, 3, Len(s)), <<>>)
       ELSE SplitFrom(Tail(s), Append(cur, Head(s)))

SplitParagraphs(s) == SplitFrom(s, <<>>)

\* Array.prototype.join(sep) on an array of strings
RECURSIVE Join(_, _)
Join(strs, sep) ==
  IF strs = <<>> THEN <<>>
  ELSE IF Len(strs) = 1 THEN strs[1]
  ELSE strs[1] \o sep \o Join(Tail(strs), sep)

\* Array.prototype.map and flat concatenation over sequences
MapSeq(s, F(_)) == [i \in 1..Len(s) |-> F(s[i])]

RECURSIVE Flatten(_)
Flatten(ss) == IF ss = <<>> THEN <<>> ELSE Head(ss) \o Flatten(Tail(ss))

\* Array.prototype.indexOf (1-based here; 0 when absent)
RECURSIVE IndexFrom(_, _, _)
IndexFrom(s, x, i) ==
  IF i > Len(s) THEN 0 ELSE IF s[i] = x THEN i ELSE IndexFrom(s, x, i + 1)

IndexOf(s, x) == IndexFrom(s, x, 1)

(***************************************************************************)
(* Numbers as parseInt returns them: an integer or NaN                     *)
(***************************************************************************)
Num(n) == [nan |-> FALSE, v |-> n]
NaN == [nan |-> TRUE, v |-> 0]

Digits == {"0", "1", "2", "3", "4", "5", "6", "7", "8", "9"}

DigitVal(c) ==
  CASE c = "0" -> 0 [] c = "1" -> 1 [] c = "2" -> 2 [] c = "3" -> 3
    [] c = "4" -> 4 [] c = "5" -> 5 [] c = "6" -> 6 [] c = "7" -> 7
    [] c = "8" -> 8 [] c = "9" -> 9

\* The value of the longest prefix of decimal digits of s, acc so far.
RECURSIVE DigitsValue(_, _)
DigitsValue(s, acc) ==
  IF s = <<>> \/ Head(s) \notin Digits THEN acc
  ELSE DigitsValue(Tail(s), 10 * acc + DigitVal(Head(s)))

\* parseInt(string): leading whitespace is skipped, one sign is accepted,
\* the digits up to the first other character are read; NaN without a digit.
ParseInt(s) ==
  LET t == TrimStart(s)
      neg == t # <<>> /\ Head(t) = "-"
      u == IF t # <<>> /\ Head(t) \in {"-", "+"} THEN Tail(t) ELSE t
  IN  IF u = <<>> \/ Head(u) \notin Digits THEN NaN
      ELSE Num(IF neg THEN 0 - DigitsValue(u, 0) ELSE DigitsValue(u, 0))

(***************************************************************************)
(* The markup tree (node-html-parser)                                      *)
(***************************************************************************)
TextNode(t) == [tag |-> "#text", attrs |-> <<>>, kids |-> <<>>, text |-> t]
Elem(tag, attrs, kids) == [tag |-> tag, attrs |-> attrs, kids |-> kids, text |-> <<>>]
Root(kids) == Elem("#root", <<>>, kids)

IsElement(n) == n.tag \notin {"#text", "#root"}

\* HTMLElement.tagName: the upper-cased tag name
TagName(n) ==
  CASE n.tag = "h1" -> "H1" [] n.tag = "h2" -> "H2" [] n.tag = "h3" -> "H3"
    [] n.tag = "h4" -> "H4" [] n.tag = "h5" -> "H5" [] n.tag = "h6" -> "H6"
    [] n.tag = "table" -> "TABLE" [] n.tag = "ul" -> "UL" [] n.tag = "ol" -> "OL"
    [] n.tag = "div" -> "DIV" [] n.tag = "p" -> "P" [] n.tag = "li" -> "LI"
    [] n.tag = "tr" -> "TR" [] n.tag = "td" -> "TD" [] n.tag = "th" -> "TH"
    [] OTHER -> n.tag

\* The node a reference (a path of child indices) denotes
RECURSIVE NodeAt(_, _)
NodeAt(n, p) == IF p = <<>> THEN n ELSE NodeAt(n.kids[Head(p)], Tail(p))

\* The null reference: no child has index 0
NullRef == <<0>>

\* Node.textContent: the texts of the descendant text nodes, concatenated
RECURSIVE TextContent(_)
TextContent(n) ==
  IF n.tag = "#text" THEN n.text
  ELSE Flatten([i \in 1..Len(n.kids) |-> TextContent(n.kids[i])])

\* HTMLElement.getAttribute: the value, or undefined (the empty string and
\* undefined are both falsy; HasAttribute tells them apart)
RECURSIVE AttrFrom(_, _, _)
AttrFrom(attrs, name, i) ==
  IF i > Len(attrs) THEN <<>>
  ELSE IF attrs[i][1] = name THEN attrs[i][2] ELSE AttrFrom(attrs, name, i + 1)

GetAttribute(n, name) == AttrFrom(n.attrs, name, 1)
HasAttribute(n, name) == \E i \in 1..Len(n.attrs) : n.attrs[i][1] = name

\* The element descendants of the node at p, in document order (preorder),
\* starting with its i-th child
RECURSIVE DescendantsFrom(_, _, _)
DescendantsFrom(root, p, i) ==
  LET n == NodeAt(root, p) IN
  IF i > Len(n.kids) THEN <<>>
  ELSE LET c == Append(p, i) IN
       (IF IsElement(n.kids[i]) THEN <<c>> \o DescendantsFrom(root, c, 1) ELSE <<>>)
       \o DescendantsFrom(root, p, i + 1)

\* HTMLElement.querySelectorAll: the descendants of the node at p that match,
\* in document order; the node itself is never among them
QuerySelectorAllBy(root, p, Match(_)) ==
  SelectSeq(DescendantsFrom(root, p, 1), LAMBDA q : Match(NodeAt(root, q)))

\* querySelectorAll for a list of tag selectors ("h1, h2, ...")
QuerySelectorAll(root, p, tags) ==
  QuerySelectorAllBy(root, p, LAMBDA n : n.tag \in tags)

\* HTMLElement.querySelector: the first match, or null
QuerySelector(root, p, tags) ==
  LET all == QuerySelectorAll(root, p, tags) IN
  IF all = <<>> THEN NullRef ELSE all[1]

\* HTMLElement.nextElementSibling: the next sibling that is an element
RECURSIVE NextElementFrom(_, _, _)
NextElementFrom(root, parent, i) ==
  IF i > Len(NodeAt(root, parent).kids) THEN NullRef
  ELSE IF IsElement(NodeAt(root, parent).kids[i]) THEN Append(parent, i)
  ELSE NextElementFrom(root, parent, i + 1)

NextElementSibling(root, p) ==
  IF p = <<>> THEN NullRef
  ELSE NextElementFrom(root, SubSeq(p, 1, Len(p) - 1), p[Len(p)] + 1)

\* HTMLElement.outerHTML / innerHTML: the serialized markup, as tokens
RECURSIVE AttrsHTML(_)
AttrsHTML(attrs) ==
  IF attrs = <<>> THEN <<>>
  ELSE <<SP, Head(attrs)[1], "=", "'">> \o Head(attrs)[2] \o <<"'">> \o AttrsHTML(Tail(attrs))

RECURSIVE OuterHTML(_)
OuterHTML(n) ==
  IF n.tag = "#text" THEN n.text
  ELSE LET inner == Flatten([i \in 1..Len(n.kids) |-> OuterHTML(n.kids[i])]) IN
       IF n.tag = "#root" THEN inner
       ELSE <<"<", n.tag>> \o AttrsHTML(n.attrs) \o <<">">> \o inner \o <<"</", n.tag, ">">>

InnerHTML(n) == Flatten([i \in 1..Len(n.kids) |-> OuterHTML(n.kids[i])])

\* Whether the i-th token of the markup belongs to a tag: a tag was opened
\* at or before it and not closed before it
InsideTag(html, i) ==
  \E j \in 1..i : html[j] \in {"<", "</"} /\ \A k \in j..(i - 1) : html[k] # ">"

\* The tokens lo..hi of the markup that are outside the tags
RECURSIVE TextOutsideTags(_, _, _)
TextOutsideTags(html, lo, hi) ==
  IF lo > hi THEN <<>>
  ELSE IF lo = hi THEN (IF InsideTag(html, lo) THEN <<>> ELSE <<html[lo]>>)
  ELSE LET mid == (lo + hi) \div 2 IN
       TextOutsideTags(html, lo, mid) \o TextOutsideTags(html, mid + 1, hi)

\* parse(html).textContent: the characters of the markup that are outside
\* the tags
ParsedTextContent(html) == TextOutsideTags(html, 1, Len(html))


\* String.prototype.startsWith / includes
StartsWith(s, pre) == Len(s) >= Len(pre) /\ SubSeq(s, 1, Len(pre)) = pre

Includes(s, sub) ==
  \E i \in 1..(Len(s) - Len(sub) + 1) : SubSeq(s, i, i + Len(sub) - 1) = sub

(***************************************************************************)
(* ConfluenceParser: the sub-extractions                                   *)
(***************************************************************************)
HeadingTags == {"h1", "h2", "h3", "h4", "h5", "h6"}
HeadingTagNames == {"H1", "H2", "H3", "H4", "H5", "H6"}

\* tagName.substring(1)
TagNameSubstring1(n) ==
  CASE TagName(n) = "H1" -> <<"1">> [] TagName(n) = "H2" -> <<"2">>
    [] TagName(n) = "H3" -> <<"3">> [] TagName(n) = "H4" -> <<"4">>
    [] TagName(n) = "H5" -> <<"5">> [] TagName(n) = "H6" -> <<"6">>
    [] OTHER -> <<>>

\* parseInt(header.tagName.substring(1))
HeaderLevel(n) == ParseInt(TagNameSubstring1(n)).v

\* metadata[name] = content for every meta element that has both: the
\* entries in the order of their first assignment, a later value replacing
\* an earlier one of the same name
RECURSIVE PutEntry(_, _, _)
PutEntry(entries, name, value) ==
  IF entries = <<>> THEN <<[name |-> name, value |-> value]>>
  ELSE IF Head(entries).name = name
       THEN <<[name |-> name, value |-> value]>> \o Tail(entries)
       ELSE <<Head(entries)>> \o PutEntry(Tail(entries), name, value)

RECURSIVE MetaEntries(_, _, _)
MetaEntries(root, metas, acc) ==
  IF metas = <<>> THEN acc
  ELSE LET m == NodeAt(root, Head(metas))
           name == GetAttribute(m, "name")
           content == GetAttribute(m, "content")
       IN  MetaEntries(root, Tail(metas),
             IF name # <<>> /\ content # <<>> THEN PutEntry(acc, name, content) ELSE acc)

extractMetadata(root) == MetaEntries(root, QuerySelectorAll(root, <<>>, {"meta"}), <<>>)

extractTitle(root) ==
  LET t == QuerySelector(root, <<>>, {"title"})
      titleElement == IF t # NullRef THEN t ELSE QuerySelector(root, <<>>, {"h1"})
  IN  IF titleElement # NullRef THEN Trim(TextContent(NodeAt(root, titleElement))) ELSE <<>>

\* The while loop of extractSections: the references of the following
\* sibling elements, from nextElement on, up to the first heading whose
\* level is not deeper than `level`
\* SectionSiblings with `nextLevel < level` as the test that ends the loop
RECURSIVE SectionSiblingsStrict(_, _, _)
SectionSiblingsStrict(root, nextElement, level) ==
  IF nextElement = NullRef THEN <<>>
  ELSE LET n == NodeAt(root, nextElement)
           isHeader == TagName(n) \in HeadingTagNames
       IN  IF isHeader /\ HeaderLevel(n) < level THEN <<>>
           ELSE <<nextElement>>
                \o SectionSiblingsStrict(root, NextElementSibling(root, nextElement), level)

\* SectionSiblings with every heading ending the loop
RECURSIVE SectionSiblingsAnyHeading(_, _, _)
SectionSiblingsAnyHeading(root, nextElement, level) ==
  IF nextElement = NullRef THEN <<>>
  ELSE LET n == NodeAt(root, nextElement)
           isHeader == TagName(n) \in HeadingTagNames
       IN  IF isHeader THEN <<>>
           ELSE <<nextElement>>
                \o SectionSiblingsAnyHeading(root, NextElementSibling(root, nextElement), level)

RECURSIVE SectionSiblings(_, _, _)
SectionSiblings(root, nextElement, level) ==
  IF nextElement = NullRef THEN <<>>
  ELSE LET n == NodeAt(root, nextElement)
           isHeader == TagName(n) \in HeadingTagNames
       IN  IF isHeader /\ HeaderLevel(n) <= level THEN <<>>
           ELSE <<nextElement>>
                \o SectionSiblings(root, NextElementSibling(root, nextElement), level)

SectionOf(root, header) ==
  LET h == NodeAt(root, header)
      level == HeaderLevel(h)
      content == MapSeq(SectionSiblings(root, NextElementSibling(root, header), level),
                        LAMBDA q : OuterHTML(NodeAt(root, q)))
  IN  [level |-> level,
       title |-> Trim(TextContent(h)),
       content |-> Flatten(content),
       textContent |->
         Trim(Join(MapSeq(content, LAMBDA html : Trim(ParsedTextContent(html))), <<NL>>))]

extractSections(root) ==
  MapSeq(QuerySelectorAll(root, <<>>, HeadingTags), LAMBDA header : SectionOf(root, header))

\* td.getAttribute(name) ? parseInt(td.getAttribute(name)) : 1
SpanOf(td, name) ==
  IF GetAttribute(td, name) # <<>> THEN ParseInt(GetAttribute(td, name)) ELSE Num(1)

CellOf(root, td) ==
  LET n == NodeAt(root, td) IN
  [text |-> Trim(TextContent(n)),
   html |-> Trim(InnerHTML(n)),
   colspan |-> SpanOf(n, "colspan"),
   rowspan |-> SpanOf(n, "rowspan")]

\* TableOf without the filter on the rows
TableOfKeepsEmptyRows(root, table) ==
  LET caption == QuerySelector(root, table, {"caption"})
      cellsOf(tr) == MapSeq(QuerySelectorAll(root, tr, {"td"}), LAMBDA td : CellOf(root, td))
  IN  [caption |-> IF caption # NullRef THEN Trim(TextContent(NodeAt(root, caption))) ELSE <<>>,
       headers |-> MapSeq(QuerySelectorAll(root, table, {"th"}),
                          LAMBDA th : Trim(TextContent(NodeAt(root, th)))),
       rows |-> MapSeq(QuerySelectorAll(root, table, {"tr"}), cellsOf)]

TableOf(root, table) ==
  LET caption == QuerySelector(root, table, {"caption"})
      cellsOf(tr) == MapSeq(QuerySelectorAll(root, tr, {"td"}), LAMBDA td : CellOf(root, td))
  IN  [caption |-> IF caption # NullRef THEN Trim(TextContent(NodeAt(root, caption))) ELSE <<>>,
       headers |-> MapSeq(QuerySelectorAll(root, table, {"th"}),
                          LAMBDA th : Trim(TextContent(NodeAt(root, th)))),
       rows |-> SelectSeq(MapSeq(QuerySelectorAll(root, table, {"tr"}), cellsOf),
                          LAMBDA row : Len(row) > 0)]

extractTables(root) ==
  MapSeq(QuerySelectorAll(root, <<>>, {"table"}), LAMBDA table : TableOf(root, table))

\* extractSpecificLists with nestedLists null whenever no ul is nested
RECURSIVE extractSpecificListsUnorderedOnly(_, _, _)
extractSpecificListsUnorderedOnly(root, p, selector) ==
  LET itemOf(li) ==
        LET ordered == extractSpecificListsUnorderedOnly(root, li, "ol")
            unordered == extractSpecificListsUnorderedOnly(root, li, "ul")
        IN  [text |-> Trim(TextContent(NodeAt(root, li))),
             html |-> Trim(InnerHTML(NodeAt(root, li))),
             nestedLists |->
               IF Len(unordered) > 0
               THEN [isNull |-> FALSE, ordered |-> ordered, unordered |-> unordered]
               ELSE [isNull |-> TRUE]]
  IN  MapSeq(QuerySelectorAll(root, p, {selector}),
             LAMBDA list : MapSeq(QuerySelectorAll(root, list, {"li"}), itemOf))

\* extractSpecificLists(node, selector), node being the node at p
RECURSIVE extractSpecificLists(_, _, _)
extractSpecificLists(root, p, selector) ==
  LET itemOf(li) ==
        LET ordered == extractSpecificLists(root, li, "ol")
            unordered == extractSpecificLists(root, li, "ul")
        IN  [text |-> Trim(TextContent(NodeAt(root, li))),
             html |-> Trim(InnerHTML(NodeAt(root, li))),
             nestedLists |->
               IF Len(ordered) > 0 \/ Len(unordered) > 0
               THEN [isNull |-> FALSE, ordered |-> ordered, unordered |-> unordered]
               ELSE [isNull |-> TRUE]]
  IN  MapSeq(QuerySelectorAll(root, p, {selector}),
             LAMBDA list : MapSeq(QuerySelectorAll(root, list, {"li"}), itemOf))

extractLists(root) ==
  [ordered |-> extractSpecificLists(root, <<>>, "ol"),
   unordered |-> extractSpecificLists(root, <<>>, "ul")]

\* classes.match(/language-(\w+)/): the word after the first "language-"
\* that is followed by one
RECURSIVE LanguageMatch(_)
LanguageMatch(classes) ==
  IF Len(classes) < 2 THEN <<>>
  ELSE IF classes[1] = "language-" /\ ~IsSpace(classes[2]) /\ classes[2] # "language-"
       THEN <<classes[2]>>
       ELSE LanguageMatch(Tail(classes))

LanguageOf(classes) ==
  IF LanguageMatch(classes) # <<>> THEN LanguageMatch(classes)
  ELSE IF Includes(classes, <<"java">>) THEN <<"java">>
  ELSE IF Includes(classes, <<"js">>) THEN <<"java", "script">>
  ELSE IF Includes(classes, <<"py">>) THEN <<"py", "thon">>
  ELSE IF Includes(classes, <<"xml">>) \/ Includes(classes, <<"html">>) THEN <<"xml">>
  ELSE IF Includes(classes, <<"css">>) THEN <<"css">>
  ELSE IF Includes(classes, <<"sql">>) THEN <<"sql">>
  ELSE <<"unknown">>

extractCodeBlocks(root) ==
  MapSeq(QuerySelectorAll(root, <<>>, {"pre", "code"}),
         LAMBDA q : [code |-> Trim(TextContent(NodeAt(root, q))),
                     language |-> LanguageOf(GetAttribute(NodeAt(root, q), "class")),
                     html |-> OuterHTML(NodeAt(root, q))])

AttachmentPath == <<"/", "download", "/", "attachments", "/">>

extractLinks(root) ==
  MapSeq(QuerySelectorAll(root, <<>>, {"a"}),
         LAMBDA q : LET link == NodeAt(root, q)
                        href == GetAttribute(link, "href")
                    IN  [href |-> href,
                         text |-> Trim(TextContent(link)),
                         title |-> GetAttribute(link, "title"),
                         isInternal |-> Includes(href, <<"/", "wiki", "/">>)
                                        \/ StartsWith(href, <<"/">>),
                         isAttachment |-> Includes(href, AttachmentPath)])

\* getAttribute(name) || null
AttrOrNull(n, name) ==
  IF GetAttribute(n, name) # <<>>
  THEN [isNull |-> FALSE, value |-> GetAttribute(n, name)]
  ELSE [isNull |-> TRUE]

extractImages(root) ==
  MapSeq(QuerySelectorAll(root, <<>>, {"img"}),
         LAMBDA q : LET img == NodeAt(root, q) IN
                    [src |-> GetAttribute(img, "src"),
                     alt |-> GetAttribute(img, "alt"),
                     title |-> GetAttribute(img, "title"),
                     width |-> AttrOrNull(img, "width"),
                     height |-> AttrOrNull(img, "height"),
                     isAttachment |-> Includes(GetAttribute(img, "src"), AttachmentPath)])

\* '[class*="macro"], [data-macro-name], [ac\\:name]'
IsMacroNode(n) ==
  \/ Includes(GetAttribute(n, "class"), <<"macro">>)
  \/ HasAttribute(n, "data-macro-name")
  \/ HasAttribute(n, "ac:name")

\* '[ac\\:name], [ac\\:parameter]'
IsParamNode(n) == HasAttribute(n, "ac:name") \/ HasAttribute(n, "ac:parameter")

RECURSIVE MacroParams(_, _, _)
MacroParams(root, paramNodes, acc) ==
  IF paramNodes = <<>> THEN acc
  ELSE LET pn == NodeAt(root, Head(paramNodes))
           paramName == IF GetAttribute(pn, "ac:name") # <<>>
                        THEN GetAttribute(pn, "ac:name")
                        ELSE GetAttribute(pn, "ac:parameter")
       IN  MacroParams(root, Tail(paramNodes),
             IF paramName # <<>> THEN PutEntry(acc, paramName, Trim(TextContent(pn))) ELSE acc)

extractMacros(root) ==
  MapSeq(QuerySelectorAllBy(root, <<>>, IsMacroNode),
         LAMBDA q : LET node == NodeAt(root, q) IN
                    [name |-> IF GetAttribute(node, "data-macro-name") # <<>>
                              THEN GetAttribute(node, "data-macro-name")
                              ELSE IF GetAttribute(node, "ac:name") # <<>>
                                   THEN GetAttribute(node, "ac:name")
                                   ELSE <<"unknown">>,
                     parameters |-> MacroParams(root,
                                      QuerySelectorAllBy(root, q, IsParamNode), <<>>),
                     html |-> OuterHTML(node),
                     content |-> Trim(TextContent(node))])

(***************************************************************************)
(* The chunker: extractVectorContent and processTable (src/index.ts)       *)
(***************************************************************************)
\* const CONFLUENCE_HOST = process.env.CONFLUENCE_HOST || "https://your-domain.atlassian.net"
CONFLUENCE_HOST == "https://your-domain.atlassian.net"

\* if (currentChunk.content.length > 1000)
ChunkSizeLimit == 1000

ContentSelector == {"div", "p", "table", "ul", "ol"}

\* The character U+2022 that starts each rendered list item
BULLET == "(U+2022)"

\* processTable without the filter on the rows
processTableKeepsEmptyRows(root, table) ==
  LET headers == MapSeq(QuerySelectorAll(root, table, {"th"}),
                        LAMBDA th : Trim(TextContent(NodeAt(root, th))))
      cellsOf(tr) == MapSeq(QuerySelectorAll(root, tr, {"td"}),
                            LAMBDA td : Trim(TextContent(NodeAt(root, td))))
      rows == MapSeq(QuerySelectorAll(root, table, {"tr"}), cellsOf)
      bar == <<SP, "|", SP>>
  IN  (IF Len(headers) > 0
       THEN <<"Table", SP, "Headers:", SP>> \o Join(headers, bar) \o <<NL>>
       ELSE <<>>)
      \o Flatten(MapSeq(rows, LAMBDA row : <<"Row:", SP>> \o Join(row, bar) \o <<NL>>))

\* processTable(tableNode), tableNode being the node at `table`
processTable(root, table) ==
  LET headers == MapSeq(QuerySelectorAll(root, table, {"th"}),
                        LAMBDA th : Trim(TextContent(NodeAt(root, th))))
      cellsOf(tr) == MapSeq(QuerySelectorAll(root, tr, {"td"}),
                            LAMBDA td : Trim(TextContent(NodeAt(root, td))))
      rows == SelectSeq(MapSeq(QuerySelectorAll(root, table, {"tr"}), cellsOf),
                        LAMBDA row : Len(row) > 0)
      bar == <<SP, "|", SP>>
  IN  (IF Len(headers) > 0
       THEN <<"Table", SP, "Headers:", SP>> \o Join(headers, bar) \o <<NL>>
       ELSE <<>>)
      \o Flatten(MapSeq(rows, LAMBDA row : <<"Row:", SP>> \o Join(row, bar) \o <<NL>>))

\* RenderElement with a failed table rendered to its plain text
RenderElementTableFallback(root, element, tableFails) ==
  LET n == NodeAt(root, element) IN
  IF TagName(n) = "TABLE"
  THEN IF tableFails THEN Trim(TextContent(n)) ELSE processTable(root, element)
  ELSE IF TagName(n) \in {"UL", "OL"}
       THEN Join(MapSeq(QuerySelectorAll(root, element, {"li"}),
                        LAMBDA li : <<BULLET, SP>> \o Trim(TextContent(NodeAt(root, li)))),
                 <<NL>>)
       ELSE Trim(TextContent(n))

\* The text an element that holds no heading is rendered to.  tableFails
\* tells whether processTable raised inside its try block; its catch then
\* returns ''.
RenderElement(root, element, tableFails) ==
  LET n == NodeAt(root, element) IN
  IF TagName(n) = "TABLE"
  THEN IF tableFails THEN <<>> ELSE processTable(root, element)
  ELSE IF TagName(n) \in {"UL", "OL"}
       THEN Join(MapSeq(QuerySelectorAll(root, element, {"li"}),
                        LAMBDA li : <<BULLET, SP>> \o Trim(TextContent(NodeAt(root, li)))),
                 <<NL>>)
       ELSE Trim(TextContent(n))

\* Whether building baseMetadata raises a TypeError: a property is read
\* from pageMetadata.space, pageMetadata.version and pageMetadata.version.by
MetadataThrows(pm) ==
  IF "space" \notin DOMAIN pm THEN TRUE
  ELSE IF "version" \notin DOMAIN pm THEN TRUE
  ELSE "by" \notin DOMAIN pm.version

BaseMetadata(pm) ==
  [url |-> <<CONFLUENCE_HOST, "/wiki/spaces/", pm.space.key, "/pages/", pm.id>>,
   lastUpdated |-> pm.version.when,
   author |-> pm.version.by.displayName]

\* SectionVector with the forEach callback's index in place of
\* vectors.length in the id
SectionVectorIndexId(f) ==
  [id |-> <<f.pageMetadata.id, "-chunk-", f.index - 1>>,
   title |-> f.pageMetadata.title,
   pageId |-> f.pageMetadata.id,
   spaceKey |-> f.pageMetadata.space.key,
   content |-> Trim(f.currentChunk.content),
   type |-> "section",
   metadata |-> [url |-> f.baseMetadata.url,
                 lastUpdated |-> f.baseMetadata.lastUpdated,
                 author |-> f.baseMetadata.author,
                 section |-> f.currentChunk.section]]

\* The object pushed by each of the three flushes
SectionVector(f) ==
  [id |-> <<f.pageMetadata.id, "-chunk-", Len(f.vectors)>>,
   title |-> f.pageMetadata.title,
   pageId |-> f.pageMetadata.id,
   spaceKey |-> f.pageMetadata.space.key,
   content |-> Trim(f.currentChunk.content),
   type |-> "section",
   metadata |-> [url |-> f.baseMetadata.url,
                 lastUpdated |-> f.baseMetadata.lastUpdated,
                 author |-> f.baseMetadata.author,
                 section |-> f.currentChunk.section]]

\* DistinctSections without the filter
DistinctSectionsAll(vectors) == MapSeq(vectors, LAMBDA v : v.metadata.section)

\* vectors.map(v => v.metadata.section).filter((s, i, arr) => arr.indexOf(s) === i)
DistinctSections(vectors) ==
  LET all == MapSeq(vectors, LAMBDA v : v.metadata.section)
      keep == {i \in 1..Len(all) : IndexOf(all, all[i]) = i}
      RECURSIVE pick(_)
      pick(i) == IF i > Len(all) THEN <<>>
                 ELSE (IF i \in keep THEN <<all[i]>> ELSE <<>>) \o pick(i + 1)
  IN  pick(1)

\* MetadataVector with the section of the last chunk as its title
MetadataVectorSectionTitle(f) ==
  [id |-> <<f.pageMetadata.id, "-metadata">>,
   title |-> f.currentChunk.section,
   pageId |-> f.pageMetadata.id,
   spaceKey |-> f.pageMetadata.space.key,
   content |-> [title |-> f.pageMetadata.title,
                spaceKey |-> f.pageMetadata.space.key,
                sections |-> DistinctSections(f.vectors),
                totalChunks |-> Len(f.vectors),
                lastUpdated |-> f.pageMetadata.version.when,
                author |-> f.pageMetadata.version.by.displayName],
   type |-> "metadata",
   metadata |-> f.baseMetadata]

MetadataVector(f) ==
  [id |-> <<f.pageMetadata.id, "-metadata">>,
   title |-> f.pageMetadata.title,
   pageId |-> f.pageMetadata.id,
   spaceKey |-> f.pageMetadata.space.key,
   content |-> [title |-> f.pageMetadata.title,
                spaceKey |-> f.pageMetadata.space.key,
                sections |-> DistinctSections(f.vectors),
                totalChunks |-> Len(f.vectors),
                lastUpdated |-> f.pageMetadata.version.when,
                author |-> f.pageMetadata.version.by.displayName],
   type |-> "metadata",
   metadata |-> f.baseMetadata]

\* The frame of one call: its arguments, its locals, and what it returned.
\* After the return the locals keep their last values; the caller sees ret.
NoChunk == [content |-> <<>>, section |-> <<>>]
NoBase == [url |-> <<>>, lastUpdated |-> "", author |-> ""]

ChunkerCalled(htmlContent, pageMetadata) ==
  [pc |-> "start", htmlContent |-> htmlContent, pageMetadata |-> pageMetadata,
   baseMetadata |-> NoBase, contentSections |-> <<>>, index |-> 0,
   currentChunk |-> NoChunk, vectors |-> <<>>, ret |-> <<>>, raised |-> FALSE]

ChunkerIdle == [pc |-> "idle"]

\* return v
ChunkerReturn(f, v) == [f EXCEPT !.pc = "done", !.ret = v]

\* ChunkerCatch returning the list built so far
ChunkerCatchReturnsVectors(f) == ChunkerReturn(f, f.vectors)

\* catch (error) { console.error(...); return []; }
ChunkerCatch(f) == ChunkerReturn(f, <<>>)

\* const root = parse(htmlContent) ... let currentChunk = {...}
ChunkerSetup(f) ==
  LET root == f.htmlContent
      body == QuerySelector(root, <<>>, {"body"})
      mainContent == IF body # NullRef THEN body ELSE <<>>
  IN  [f EXCEPT !.pc = "loop",
                !.baseMetadata = BaseMetadata(f.pageMetadata),
                !.contentSections = QuerySelectorAll(root, mainContent, ContentSelector),
                !.index = 1,
                !.currentChunk = [content |-> <<>>, section |-> <<"Main", SP, "Content">>]]

CurrentElement(f) == f.contentSections[f.index]

HeaderOf(f) == QuerySelector(f.htmlContent, CurrentElement(f), HeadingTags)

\* HeadingStep with the heading's text as the content only, the label kept
HeadingStepKeepsLabel(f) ==
  LET headerText == Trim(TextContent(NodeAt(f.htmlContent, HeaderOf(f)))) IN
  [f EXCEPT !.vectors = IF Trim(f.currentChunk.content) # <<>>
                        THEN Append(f.vectors, SectionVector(f)) ELSE f.vectors,
            !.currentChunk.content = headerText,
            !.index = f.index + 1]

\* The forEach callback, branch `if (header)`
HeadingStep(f) ==
  LET headerText == Trim(TextContent(NodeAt(f.htmlContent, HeaderOf(f)))) IN
  [f EXCEPT !.vectors = IF Trim(f.currentChunk.content) # <<>>
                        THEN Append(f.vectors, SectionVector(f)) ELSE f.vectors,
            !.currentChunk = [content |-> headerText, section |-> headerText],
            !.index = f.index + 1]

\* ContentStep with the whole accumulator kept after a size flush
ContentStepKeepsAll(f, tableFails) ==
  LET text == RenderElement(f.htmlContent, CurrentElement(f), tableFails)
      appended == IF text # <<>>
                  THEN [f EXCEPT !.currentChunk.content = @ \o <<NL, NL>> \o text]
                  ELSE f
  IN  IF StrLen(appended.currentChunk.content) > ChunkSizeLimit
      THEN [appended EXCEPT !.vectors = Append(appended.vectors, SectionVector(appended)),
                            !.index = f.index + 1]
      ELSE [appended EXCEPT !.index = f.index + 1]

\* ContentStep with an empty accumulator after a size flush
ContentStepStartsEmpty(f, tableFails) ==
  LET text == RenderElement(f.htmlContent, CurrentElement(f), tableFails)
      appended == IF text # <<>>
                  THEN [f EXCEPT !.currentChunk.content = @ \o <<NL, NL>> \o text]
                  ELSE f
  IN  IF StrLen(appended.currentChunk.content) > ChunkSizeLimit
      THEN [appended EXCEPT !.vectors = Append(appended.vectors, SectionVector(appended)),
                            !.currentChunk.content = <<>>,
                            !.index = f.index + 1]
      ELSE [appended EXCEPT !.index = f.index + 1]

\* The forEach callback, branch `else`: render, append, size flush
ContentStep(f, tableFails) ==
  LET text == RenderElement(f.htmlContent, CurrentElement(f), tableFails)
      appended == IF text # <<>>
                  THEN [f EXCEPT !.currentChunk.content = @ \o <<NL, NL>> \o text]
                  ELSE f
      paragraphs == SplitParagraphs(appended.currentChunk.content)
      lastParagraph == paragraphs[Len(paragraphs)]
  IN  IF StrLen(appended.currentChunk.content) > ChunkSizeLimit
      THEN [appended EXCEPT !.vectors = Append(appended.vectors, SectionVector(appended)),
                            !.currentChunk.content = lastParagraph,
                            !.index = f.index + 1]
      ELSE [appended EXCEPT !.index = f.index + 1]

\* FinalFlush without the test on the trimmed accumulator
FinalFlushAlways(f) ==
  [f EXCEPT !.pc = "metadata", !.vectors = Append(f.vectors, SectionVector(f))]

\* After the loop: "Don't forget to add the last chunk"
FinalFlush(f) ==
  [f EXCEPT !.pc = "metadata",
            !.vectors = IF Trim(f.currentChunk.content) # <<>>
                        THEN Append(f.vectors, SectionVector(f)) ELSE f.vectors]

\* MetadataStep pushing the metadata vector only when a section was emitted
MetadataStepIfSections(f) ==
  ChunkerReturn(f, IF f.vectors = <<>> THEN f.vectors
                   ELSE Append(f.vectors, MetadataVector(f)))

\* vectors.push({... type: 'metadata' ...}); return vectors;
MetadataStep(f) == ChunkerReturn(f, Append(f.vectors, MetadataVector(f)))

(***************************************************************************)
(* ConfluenceParser.parseContent                                           *)
(***************************************************************************)
\* The properties of the returned object literal, in evaluation order
ParserSteps ==
  <<"metadata", "title", "sections", "tables", "lists", "codeBlocks", "links",
    "images", "macros">>

Extract(name, root) ==
  CASE name = "metadata" -> extractMetadata(root)
    [] name = "title" -> extractTitle(root)
    [] name = "sections" -> extractSections(root)
    [] name = "tables" -> extractTables(root)
    [] name = "lists" -> extractLists(root)
    [] name = "codeBlocks" -> extractCodeBlocks(root)
    [] name = "links" -> extractLinks(root)
    [] name = "images" -> extractImages(root)
    [] name = "macros" -> extractMacros(root)

NoFields == [x \in {} |-> <<>>]

\* htmlContent is the argument as passed: a string (given by the tree that
\* parse builds from it) or some other value, for which parse raises
ParserCalled(htmlContent) ==
  [pc |-> "parse", htmlContent |-> htmlContent, step |-> 0, fields |-> NoFields,
   ret |-> NoFields, raised |-> FALSE]

ParserIdle == [pc |-> "idle"]

\* return v
ParserReturn(f, v) == [f EXCEPT !.pc = "done", !.ret = v]

\* ParserCatch adding the error to the properties evaluated so far
ParserCatchKeepsFields(f, message) ==
  ParserReturn(f, f.fields @@ ("error" :> message) @@ ("htmlContent" :> f.htmlContent))

\* catch (error) { console.error(...); return { error: error.message, htmlContent }; }
ParserCatch(f, message) ==
  ParserReturn(f, ("error" :> message) @@ ("htmlContent" :> f.htmlContent))

\* const root = parse(htmlContent);
ParserSetup(f) == [f EXCEPT !.pc = "extract", !.step = 1]

\* One property of the object literal is evaluated; after the last one the
\* literal is returned
ExtractStep(f) ==
  LET name == ParserSteps[f.step]
      fields == f.fields @@ (name :> Extract(name, f.htmlContent.tree))
  IN  IF f.step = Len(ParserSteps)
      THEN ParserReturn([f EXCEPT !.fields = fields], fields)
      ELSE [f EXCEPT !.fields = fields, !.step = f.step + 1]

(***************************************************************************)
(* The arguments the functions are called with                             *)
(***************************************************************************)
\* Number of top-level nodes of a document
MaxTop == 2

P(t) == Elem("p", <<>>, <<TextNode(t)>>)
H(tag, t) == Elem(tag, <<>>, <<TextNode(t)>>)
Div(kids) == Elem("div", <<>>, kids)
Li(kids) == Elem("li", <<>>, kids)
Td(attrs, t) == Elem("td", attrs, <<TextNode(t)>>)
Th(t) == Elem("th", <<>>, <<TextNode(t)>>)
Tr(cells) == Elem("tr", <<>>, cells)

\* <table><tr><th>a</th><th>b</th></tr><tr><td colspan='0'>x</td>...</table>:
\* a header row and two data rows, the cells carrying the forms a colspan
\* or rowspan attribute can take
SpanTable ==
  Elem("table", <<>>,
    <<Tr(<<Th(<<"a">>), Th(<<SP, "b", NL>>)>>),
      Tr(<<Td(<<<<"colspan", <<"0">>>>>>, <<"x">>),
           Td(<<<<"rowspan", <<"a", "b", "c">>>>>>, <<"y">>),
           Td(<<<<"colspan", <<"2">>>>, <<"rowspan", <<>>>>>>, <<SP, "x", SP>>)>>),
      Tr(<<Td(<<<<"colspan", <<"-", "1">>>>>>, <<"y">>),
           Td(<<>>, <<>>)>>)>>)

\* A table without header cells that holds a table in a cell
NestedTable ==
  Elem("table", <<>>,
    <<Tr(<<Elem("td", <<>>, <<TextNode(<<"x">>),
                              Elem("table", <<>>, <<Tr(<<Td(<<>>, <<"y">>)>>)>>)>>)>>)>>)

\* <ul><li>x</li><li>y<ul><li>b</li></ul></li></ul>
NestedList ==
  Elem("ul", <<>>,
    <<Li(<<TextNode(<<"x">>)>>),
      Li(<<TextNode(<<"y">>), Elem("ul", <<>>, <<Li(<<TextNode(<<"b">>)>>)>>)>>)>>)

OrderedList == Elem("ol", <<>>, <<Li(<<TextNode(<<"a">>)>>), Li(<<TextNode(<<SP>>)>>)>>)

\* <ul><li>a<ul><li>b<ul><li>c</li></ul></li></ul></li><li>y<ol><li>x</li></ol></li></ul>:
\* lists nested three deep, and an item that holds an ordered list only
DeepList ==
  Elem("ul", <<>>,
    <<Li(<<TextNode(<<"a">>),
           Elem("ul", <<>>,
             <<Li(<<TextNode(<<"b">>),
                    Elem("ul", <<>>, <<Li(<<TextNode(<<"c">>)>>)>>)>>)>>)>>),
      Li(<<TextNode(<<"y">>), Elem("ol", <<>>, <<Li(<<TextNode(<<"x">>)>>)>>)>>)>>)

\* The test's document: <div><h1>A</h1><p>x</p><h2>B</h2><p>y</p></div>
HeadedDiv == Div(<<H("h1", <<"A">>), P(<<"x">>), H("h2", <<"B">>), P(<<"y">>)>>)

\* Headings of three levels among their siblings, one of them a text node
LevelsDiv ==
  Div(<<H("h2", <<"B">>), P(<<"x">>), H("h3", <<"C">>), TextNode(<<"b">>), P(<<"y">>),
        H("h1", <<"A">>), P(<<"x">>)>>)

\* The documents of the specification's examples:
\* <h1>A</h1><p>x</p><h2>B</h2><p>y</p> and
\* <table><tr><th>Name</th><th>Age</th></tr><tr><td>John</td><td>25</td></tr></table>
SectionsExample == Root(<<H("h1", <<"A">>), P(<<"x">>), H("h2", <<"B">>), P(<<"y">>)>>)

TableExample ==
  Root(<<Elem("table", <<>>,
           <<Tr(<<Th(<<"Name">>), Th(<<"Age">>)>>),
             Tr(<<Td(<<>>, <<"John">>), Td(<<>>, <<"25">>)>>)>>)>>)

\* A link, an image, a code block, a meta element and a macro
MiscDiv ==
  Div(<<Elem("a", <<<<"href", <<"/", "wiki", "/", "x">>>>>>, <<TextNode(<<"x">>)>>),
        Elem("a", <<<<"href", <<"http:", "/", "download", "/", "attachments", "/", "y">>>>>>,
             <<TextNode(<<"y">>)>>),
        Elem("img", <<<<"src", <<"/", "download", "/", "attachments", "/", "y">>>>,
                      <<"width", <<"2">>>>>>, <<>>),
        Elem("pre", <<<<"class", <<"language-", "py">>>>>>, <<TextNode(<<"x">>)>>),
        Elem("code", <<<<"class", <<"brush", SP, "js">>>>>>, <<TextNode(<<"y">>)>>),
        Elem("meta", <<<<"name", <<"a">>>>, <<"content", <<"b">>>>>>, <<>>),
        Elem("span", <<<<"class", <<"code", "-", "macro">>>>, <<"data-macro-name", <<"code">>>>>>,
             <<Elem("span", <<<<"ac:name", <<"a">>>>>>, <<TextNode(<<"b">>)>>)>>)>>)

\* The top-level nodes of the documents the parser is called with
ParserBlocks ==
  { H("h1", <<"A">>), H("h2", <<"B">>), H("h3", <<"C">>),
    P(<<"x">>), TextNode(<<"y">>), HeadedDiv, LevelsDiv,
    SpanTable, NestedTable, NestedList, OrderedList, MiscDiv }

\* The top-level nodes of the documents the chunker is called with: the
\* paragraphs are short, blank, of two blank-line separated parts, or long
\* enough to reach the size limit alone or together
ChunkerBlocks ==
  { P(<<"x">>), P(<<SP>>), P(<<"a", NL, NL, "b">>),
    P(<<"w499">>), P(<<"w998">>), P(<<"w999">>), P(<<"w1500">>),
    HeadedDiv, Div(<<H("h2", <<"B">>)>>), H("h1", <<"A">>),
    SpanTable, NestedList, Elem("body", <<>>, <<P(<<"y">>)>>) }

DocsOver(blocks) == {Root(kids) : kids \in UNION {[1..n -> blocks] : n \in 0..MaxTop}}

ParserDocs == DocsOver(ParserBlocks) \cup {SectionsExample, TableExample, Root(<<DeepList>>)}
\* <table></table>, and a table whose only row holds no cell
EmptyTable == Elem("table", <<>>, <<>>)
EmptyRowTable == Elem("table", <<>>, <<Tr(<<>>)>>)

\* <div><p>x</p></div>: a paragraph inside a div that holds no heading
PlainDiv == Div(<<P(<<"x">>)>>)

ChunkerDocs ==
  DocsOver(ChunkerBlocks) \cup {Root(<<PlainDiv>>)}
  \cup {Root(<<EmptyTable>>), Root(<<EmptyRowTable>>), Root(<<NestedTable>>)}

\* The page records of the tests, and records that lack space, version or
\* version.by
PageMetadatas ==
  { [id |-> "123456", title |-> "Test Page", space |-> [key |-> "TEST"],
     version |-> [when |-> "2024-01-01T00:00:00.000Z", by |-> [displayName |-> "Test User"]]],
    [id |-> "98317", title |-> "Other", space |-> [key |-> "DOCS"],
     version |-> [when |-> "2025-06-01T00:00:00.000Z", by |-> [displayName |-> "A. Writer"]]],
    [id |-> "123456", title |-> "Test Page",
     version |-> [when |-> "2024-01-01T00:00:00.000Z", by |-> [displayName |-> "Test User"]]],
    [id |-> "123456", title |-> "Test Page", space |-> [key |-> "TEST"]],
    [id |-> "123456", title |-> "Test Page", space |-> [key |-> "TEST"],
     version |-> [when |-> "2024-01-01T00:00:00.000Z"]] }

\* What parseContent is called with: any document, or a value that is not a
\* string (null)
ParserInputs ==
  {[isString |-> TRUE, tree |-> d] : d \in ParserDocs}
  \cup {[isString |-> FALSE, tree |-> Root(<<>>)]}

\* The documents and page records of two calls that run at the same time
PairChunkerDocs ==
  { Root(<<P(<<"w999">>), P(<<"x">>)>>), Root(<<HeadedDiv>>), Root(<<SpanTable, P(<<"y">>)>>) }

PairPageMetadatas == {pm \in PageMetadatas : ~MetadataThrows(pm)}

PairParserDocs == { SectionsExample, TableExample, Root(<<NestedList>>) }

(***************************************************************************)
(* A call run from its frame to its return, when nothing raises but what   *)
(* the arguments make raise                                                *)
(***************************************************************************)
IsChunkerFrame(f) == "pageMetadata" \in DOMAIN f

ChunkerAdvanceCatches(f) == f.pc = "start" /\ MetadataThrows(f.pageMetadata)

\* The next step of extractVectorContent
ChunkerAdvance(f) ==
  CASE f.pc = "start" ->
         IF MetadataThrows(f.pageMetadata) THEN ChunkerCatch(f) ELSE ChunkerSetup(f)
    [] f.pc = "loop" ->
         IF f.index > Len(f.contentSections) THEN FinalFlush(f)
         ELSE IF HeaderOf(f) # NullRef THEN HeadingStep(f) ELSE ContentStep(f, FALSE)
    [] f.pc = "metadata" -> MetadataStep(f)
    [] OTHER -> f

RECURSIVE ChunkerRun(_)
ChunkerRun(f) == IF f.pc = "done" THEN f.ret ELSE ChunkerRun(ChunkerAdvance(f))

ParserAdvanceCatches(f) == f.pc = "parse" /\ ~f.htmlContent.isString

\* The next step of parseContent
ParserAdvance(f) ==
  CASE f.pc = "parse" ->
         IF f.htmlContent.isString THEN ParserSetup(f) ELSE ParserCatch(f, "parse")
    [] f.pc = "extract" -> ExtractStep(f)
    [] OTHER -> f

RECURSIVE ParserRun(_)
ParserRun(f) == IF f.pc = "done" THEN f.ret ELSE ParserRun(ParserAdvance(f))

SecondIdle == [pc |-> "idle"]

(***************************************************************************)
(* The functions that fetch and save (src/index.ts)                        *)
(***************************************************************************)
IoIdle == [pc |-> "idle"]

Null == [isNull |-> TRUE]
Some(v) == [isNull |-> FALSE, value |-> v]

\* return v
IoReturn(f, v) == [f EXCEPT !.pc = "done", !.ret = v]

\* validateConfiguration: the names of requiredVars, in the order of the
\* object literal
RequiredVars ==
  <<"CONFLUENCE_HOST", "CONFLUENCE_EMAIL", "CONFLUENCE_API_TOKEN", "CONFLUENCE_PAGE_ID",
    "CONFLUENCE_SPACE_KEY">>

RequiredVarNames == {RequiredVars[i] : i \in 1..Len(RequiredVars)}

\* What a call of the client can do: resolve with the object asked for,
\* resolve with undefined, or reject
ApiOutcomes == {"ok", "undefined", "rejects"}

\* env is the set of the variables of process.env that have a non-empty value
ValidateCalled(env) ==
  [fn |-> "validateConfiguration", pc |-> "vars", env |-> env, calls |-> <<>>,
   ret |-> FALSE, raised |-> FALSE]

\* The for loop over Object.entries(requiredVars): a line on the console for
\* each variable, nothing else
MissingVarLines(env) ==
  LET RECURSIVE lines(_)
      lines(i) == IF i > Len(RequiredVars) THEN <<>>
                  ELSE (IF RequiredVars[i] \in env THEN <<>>
                        ELSE <<"[Validation] Missing required environment variable:">>)
                       \o lines(i + 1)
  IN  lines(1)

ValidateVarsStep(f) == [f EXCEPT !.pc = "space"]

\* if (spaceKey) { await client.space.getSpace(...) }, and the same for the
\* page: the variable `name` decides whether `method` is called; a call
\* that rejects, or whose result is undefined, ends in the catch
ValidateApiStep(f, name, method, next, outcome) ==
  IF name \notin f.env
  THEN (IF next = "done" THEN IoReturn(f, TRUE) ELSE [f EXCEPT !.pc = next])
  ELSE LET called == [f EXCEPT !.calls = Append(@, method)] IN
       IF outcome # "ok" THEN IoReturn(called, FALSE)
       ELSE IF next = "done" THEN IoReturn(called, TRUE)
       ELSE [called EXCEPT !.pc = next]

\* saveContentToFile: a path is the sequence of its segments
Dirname(path) == IF Len(path) <= 1 THEN <<".">> ELSE SubSeq(path, 1, Len(path) - 1)

\* filePath is [isString, path]: path.dirname raises for a value that is not
\* a string
SaveCalled(content, filePath) ==
  [fn |-> "saveContentToFile", pc |-> "mkdir", content |-> content, filePath |-> filePath,
   ops |-> <<>>, ret |-> Null, raised |-> FALSE]

\* SaveMkdirStep going on to the write whatever fs.mkdir did
SaveMkdirStepIgnoresFailure(f, ok) ==
  IF ~f.filePath.isString THEN IoReturn(f, Null)
  ELSE [f EXCEPT !.ops = Append(@, [op |-> "mkdir", path |-> Dirname(f.filePath.path),
                                     ok |-> ok]),
                 !.pc = "write"]

\* const dir = path.dirname(filePath); await fs.mkdir(dir, { recursive: true });
SaveMkdirStep(f, ok) ==
  IF ~f.filePath.isString THEN IoReturn(f, Null)
  ELSE LET tried == [f EXCEPT !.ops = Append(@, [op |-> "mkdir",
                                                  path |-> Dirname(f.filePath.path),
                                                  ok |-> ok])]
       IN  IF ok THEN [tried EXCEPT !.pc = "write"] ELSE IoReturn(tried, Null)

\* await fs.writeFile(filePath, content); return filePath;
SaveWriteStep(f, ok) ==
  LET tried == [f EXCEPT !.ops = Append(@, [op |-> "writeFile", path |-> f.filePath.path,
                                             ok |-> ok])]
  IN  IF ok THEN IoReturn(tried, Some(f.filePath.path)) ELSE IoReturn(tried, Null)

\* A whole saveContentToFile call made by another function: what it did to
\* the file system and what it returned
SaveRun(filePath, mkOk, wrOk) ==
  LET made == SaveMkdirStep(SaveCalled(<<>>, [isString |-> TRUE, path |-> filePath]), mkOk)
  IN  IF made.pc = "write" THEN SaveWriteStep(made, wrOk) ELSE made

\* sanitizeFilename: name.replace(/[/\\?%*:|"<>]/g, "-"), a name being the
\* sequence of its characters or runs of harmless characters
UnsafeChars == {"/", "\\", "?", "%", "*", ":", "|", "\"", "<", ">"}

sanitizeFilename(name) ==
  [i \in 1..Len(name) |-> IF name[i] \in UnsafeChars THEN "-" ELSE name[i]]

\* scrapePage: a path is the sequence of its segments and a segment is a name
\* in the sense of sanitizeFilename. `served` is the page the server holds
\* under pageId; ops lists the requests made and the file system calls made,
\* in order; done counts the attachments the for loop has been through
ScrapeCalled(pageId, outputDir, served) ==
  [fn |-> "scrapePage", pc |-> "fetch", pageId |-> pageId, outputDir |-> outputDir,
   served |-> served, ops |-> <<>>, attachments |-> <<>>, done |-> 0,
   ret |-> Null, raised |-> FALSE]

\* Number of requests and file system calls of the frame that failed
Faults(f) == Cardinality({i \in 1..Len(f.ops) : ~f.ops[i].ok})

\* catch (error) { console.error(`Failed to scrape page ...`); return null; }
ScrapeCatch(f) == IoReturn(f, Null)

\* What the request of getPageContent can do: fetch rejects, the status is not
\* ok, the body is null, the body is an object without id, or it is the page
PageFetchOutcomes == {"rejects", "httpError", "null", "noId", "ok"}

\* ScrapeFetchStep going on with the page whatever the request did
ScrapeFetchStepIgnoresFailure(f, outcome) ==
  [f EXCEPT !.ops = Append(@, [op |-> "getPage", path |-> <<<<"content">>, <<f.pageId>>>>,
                               ok |-> outcome = "ok"]),
            !.pc = "pageDir"]

\* const page = await getPageContent(client, pageId): getPageContent rethrows
\* what fetchDirectly raised and raises itself for a response without id
ScrapeFetchStep(f, outcome) ==
  LET asked == [f EXCEPT !.ops = Append(@, [op |-> "getPage",
                                            path |-> <<<<"content">>, <<f.pageId>>>>,
                                            ok |-> outcome = "ok"])]
  IN  IF outcome = "ok" THEN [asked EXCEPT !.pc = "pageDir"] ELSE ScrapeCatch(asked)

\* path.join(outputDir, spaceKey, pageTitle)
PageDir(f) ==
  f.outputDir \o <<IF f.served.space.isNull THEN <<"unknown">> ELSE <<f.served.space.value>>,
                   sanitizeFilename(f.served.title.value)>>

\* sanitizeFilename(page.title) raises for a page without title;
\* await fs.mkdir(pageDir, { recursive: true })
ScrapePageDirStep(f, ok) ==
  IF f.served.title.isNull THEN ScrapeCatch(f)
  ELSE LET tried == [f EXCEPT !.ops = Append(@, [op |-> "mkdir", path |-> PageDir(f),
                                                  ok |-> ok])]
       IN  IF ok THEN [tried EXCEPT !.pc = "html"] ELSE ScrapeCatch(tried)

\* ScrapeSaveStep with a save that failed ending the call in the catch
ScrapeSaveStepStopsOnFailure(f, name, next, mkOk, wrOk) ==
  LET run == SaveRun(Append(PageDir(f), <<name>>), mkOk, wrOk)
      saved == [f EXCEPT !.ops = @ \o run.ops, !.pc = next]
  IN  IF run.ret.isNull THEN ScrapeCatch(saved) ELSE saved

\* await saveContentToFile(..., path.join(pageDir, name)): the result is not
\* looked at
ScrapeSaveStep(f, name, next, mkOk, wrOk) ==
  [f EXCEPT !.ops = @ \o SaveRun(Append(PageDir(f), <<name>>), mkOk, wrOk).ops,
            !.pc = next]

\* const htmlContent = page.body.storage.value raises for a page without
\* body; then "Save original HTML"
ScrapeHtmlStep(f, mkOk, wrOk) ==
  IF ~f.served.hasBody THEN ScrapeCatch(f)
  ELSE ScrapeSaveStep(f, "content.html", "parsed", mkOk, wrOk)

\* What the request of getPageAttachments can do: fail, answer without a
\* results array, or answer with the list
ListOutcomes == {"rejects", "noResults", "ok"}

\* const attachments = await getPageAttachments(client, pageId), which
\* returns [] when its request fails; n is the length of the list served.
\* An attachment is known by its place in the list
ScrapeListStep(f, outcome, n) ==
  LET asked == [f EXCEPT !.ops = Append(@, [op |-> "listAttachments",
                            path |-> <<<<"content">>, <<f.pageId>>, <<"child">>, <<"attachment">>>>,
                            ok |-> outcome # "rejects"])]
      found == IF outcome = "ok" THEN [i \in 1..n |-> i] ELSE <<>>
  IN  [asked EXCEPT !.attachments = found,
                    !.pc = IF Len(found) > 0 THEN "attachmentsDir" ELSE "vectors"]

\* path.join(pageDir, "attachments")
AttachmentsDir(f) == Append(PageDir(f), <<"attachments">>)

\* if (attachments.length > 0) { await fs.mkdir(attachmentsDir, ...)
ScrapeAttachmentsDirStep(f, ok) ==
  LET tried == [f EXCEPT !.ops = Append(@, [op |-> "mkdir", path |-> AttachmentsDir(f),
                                             ok |-> ok])]
  IN  IF ok THEN [tried EXCEPT !.pc = "download"] ELSE ScrapeCatch(tried)

\* What downloadAttachment can meet: the request for the attachment's record
\* fails, the download fails, the write fails, or everything works
DownloadOutcomes == {"recordFails", "downloadFails", "writeFails", "ok"}

\* The requests and the write of one downloadAttachment call, which returns
\* null instead of raising
DownloadOps(f, i, outcome) ==
  LET name == <<"att", ToString(f.attachments[i])>>
      record == [op |-> "getAttachment", path |-> <<<<"content">>, name>>,
                 ok |-> outcome # "recordFails"]
      download == [op |-> "download", path |-> <<<<"download">>, <<"attachments">>, name>>,
                   ok |-> outcome # "downloadFails"]
      write == [op |-> "writeFile", path |-> Append(AttachmentsDir(f), sanitizeFilename(name)),
                ok |-> outcome # "writeFails"]
  IN  CASE outcome = "recordFails" -> <<record>>
        [] outcome = "downloadFails" -> <<record, download>>
        [] OTHER -> <<record, download, write>>

\* for (const attachment of attachments) { await downloadAttachment(...) }:
\* one turn of the loop
ScrapeDownloadStep(f, outcome) ==
  LET i == f.done + 1 IN
  [f EXCEPT !.ops = @ \o DownloadOps(f, i, outcome),
            !.done = i,
            !.pc = IF i = Len(f.attachments) THEN "vectors" ELSE "download"]

\* const metadata = {...}: page.version.number raises for a page without
\* version; then the save of metadata.json and the return of the record
ScrapeMetadataStep(f, mkOk, wrOk) ==
  IF ~f.served.hasVersion THEN ScrapeCatch(f)
  ELSE IoReturn(ScrapeSaveStep(f, "metadata.json", "done", mkOk, wrOk),
                Some([pageId |-> f.pageId, title |-> f.served.title.value,
                      outputDir |-> PageDir(f)]))

\* Largest number of requests of one getAllPagesInSpace call, longest list of
\* results in one response to it, and largest number of results a search has
MaxRequests == 3
MaxResults == 2
MaxTotal == 3

\* getAllPagesInSpace and searchPages call themselves for the next page:
\* levels lists the calls made so far, outermost first, each with its startAt
\* and the response its request got. startAt and limit are the arguments of
\* the outermost call
PagesCalled(startAt, limit) ==
  [fn |-> "getAllPagesInSpace", pc |-> "request", startAt |-> startAt, limit |-> limit, levels |-> <<>>,
   ret |-> <<>>, raised |-> FALSE]

\* NextStartAt with the nested call asking from the offset of its caller
NextStartAtOfCaller(f) ==
  IF f.levels = <<>> THEN f.startAt ELSE f.levels[Len(f.levels)].startAt

\* startAt of the call that is about to make its request: the argument of the
\* outermost call, and startAt + limit of the caller for a nested one
NextStartAt(f) ==
  IF f.levels = <<>> THEN f.startAt ELSE f.levels[Len(f.levels)].startAt + f.limit

\* getAllPagesInSpace: the response is thrown away when the request fails
\* ("rejects": fetch rejects or the status is not ok) or when it has no
\* results array ("noResults")
PagesValid(r) == r.kind = "ok"

\* if (response.size && response._links?.next): a size that is missing counts
\* as 0
PagesContinues(r) == PagesValid(r) /\ r.size # 0 /\ r.next

\* What the call of level k returns: [] from the catch, and otherwise its
\* results followed by what the nested call returned
RECURSIVE PagesReturn(_, _)
PagesReturnNestedFirst(levels, k) ==
  IF k > Len(levels) \/ ~PagesValid(levels[k].response) THEN <<>>
  ELSE PagesReturn(levels, k + 1) \o levels[k].response.results

PagesReturn(levels, k) ==
  IF k > Len(levels) \/ ~PagesValid(levels[k].response) THEN <<>>
  ELSE levels[k].response.results
       \o (IF PagesContinues(levels[k].response) THEN PagesReturn(levels, k + 1) ELSE <<>>)

\* One call of getAllPagesInSpace up to its nested call, or, when it makes
\* none, up to the return of the outermost call
PagesRequestStep(f, r) ==
  LET asked == [f EXCEPT !.levels = Append(@, [startAt |-> NextStartAt(f), response |-> r])]
  IN  IF PagesContinues(r) THEN asked ELSE IoReturn(asked, PagesReturn(asked.levels, 1))

\* The responses a server can give to the k-th request: a result is known by
\* the request it answered and its place in the answer
PagesResponses(k) ==
  { [kind |-> "rejects", results |-> <<>>, size |-> 0, next |-> FALSE],
    [kind |-> "noResults", results |-> <<>>, size |-> 0, next |-> FALSE] }
  \cup { [kind |-> "ok", results |-> [j \in 1..n |-> <<k, j>>], size |-> size, next |-> next] :
           n \in 0..MaxResults, size \in {0, 1, MaxResults}, next \in BOOLEAN }

\* A searchPages call against a server that holds `total` results for the
\* query
SearchCalled(startAt, limit, total) ==
  [fn |-> "searchPages", pc |-> "request", startAt |-> startAt, limit |-> limit,
   total |-> total, levels |-> <<>>, ret |-> <<>>, raised |-> FALSE]

\* searchPages: the response of client.search.search; "noStart" is an answer
\* that lacks the start field
SearchValid(r) == r.kind \in {"ok", "noStart"}

\* SearchContinues asking again when the response ends at the last result
SearchContinuesAtEnd(r) ==
  /\ SearchValid(r)
  /\ r.size # 0
  /\ r.totalSize # 0
  /\ ~r.start.isNull
  /\ r.size + r.start.value <= r.totalSize

\* if (response.size && response.totalSize && response.start !== undefined &&
\*     response.size + response.start < response.totalSize)
SearchContinues(r) ==
  /\ SearchValid(r)
  /\ r.size # 0
  /\ r.totalSize # 0
  /\ ~r.start.isNull
  /\ r.size + r.start.value < r.totalSize

RECURSIVE SearchReturn(_, _)
SearchReturn(levels, k) ==
  IF k > Len(levels) \/ ~SearchValid(levels[k].response) THEN <<>>
  ELSE levels[k].response.results
       \o (IF SearchContinues(levels[k].response) THEN SearchReturn(levels, k + 1) ELSE <<>>)

\* One call of searchPages up to its nested call, or, when it makes none, up
\* to the return of the outermost call
SearchRequestStep(f, r) ==
  LET asked == [f EXCEPT !.levels = Append(@, [startAt |-> NextStartAt(f), response |-> r])]
  IN  IF SearchContinues(r) THEN asked ELSE IoReturn(asked, SearchReturn(asked.levels, 1))

Min(a, b) == IF a < b THEN a ELSE b

\* The answer of a server that holds `total` results, numbered from 0, to the
\* request (start, limit): the results at start .. min(start+limit, total)-1
\* with their true size, start and totalSize
TruthfulResponse(total, start, limit) ==
  LET end == Min(start + limit, total)
      n == IF end > start THEN end - start ELSE 0
  IN  [kind |-> "ok", results |-> [j \in 1..n |-> start + j - 1], size |-> n,
       start |-> Some(start), totalSize |-> total]

\* The responses a server holding `total` results can give
SearchResponses(total, start, limit) ==
  { TruthfulResponse(total, start, limit),
    [TruthfulResponse(total, start, limit) EXCEPT !.kind = "noStart", !.start = Null],
    [kind |-> "rejects", results |-> <<>>, size |-> 0, start |-> Null, totalSize |-> 0],
    [kind |-> "noResults", results |-> <<>>, size |-> 0, start |-> Null, totalSize |-> 0] }

\* A getAllPagesInSpace call against a server that holds `total` pages of
\* the space
PagesCalledOn(startAt, limit, total) ==
  [fn |-> "getAllPagesInSpace", pc |-> "request", startAt |-> startAt, limit |-> limit,
   total |-> total, levels |-> <<>>, ret |-> <<>>, raised |-> FALSE]

\* The answers of a server that holds `total` pages and honours start and
\* limit: the pages at start .. min(start+limit, total)-1 with their true
\* size, with or without a next link; or the request fails
PagesResponsesOn(total, start, limit) ==
  { [kind |-> "ok", results |-> TruthfulResponse(total, start, limit).results,
     size |-> TruthfulResponse(total, start, limit).size, next |-> next] : next \in BOOLEAN }
  \cup { [kind |-> "rejects", results |-> <<>>, size |-> 0, next |-> FALSE] }

\* The arguments of the calls
FilePaths ==
  { [isString |-> TRUE, path |-> <<"tmp", "test", "file.txt">>],
    [isString |-> TRUE, path |-> <<"file.txt">>],
    [isString |-> FALSE, path |-> <<>>] }

FileContents == {<<"test", SP, "content">>, <<>>}

\* The pages a server can hold: the page of the tests, a page whose title has
\* characters that no file name may have, and pages that lack the title, the
\* space, the body or the version
TestPage ==
  [id |-> "123456", title |-> Some(<<"Test", SP, "Page">>), space |-> Some("TEST"),
   hasBody |-> TRUE, hasVersion |-> TRUE]

ScrapePages ==
  { TestPage,
    [TestPage EXCEPT !.title = Some(<<"A", "/", "B", ":", "C">>)],
    [TestPage EXCEPT !.title = Null],
    [TestPage EXCEPT !.space = Null],
    [TestPage EXCEPT !.hasBody = FALSE],
    [TestPage EXCEPT !.hasVersion = FALSE] }

\* Longest list of attachments a page has, and the largest number of
\* requests and file system calls that fail during one scrapePage call
MaxAttachments == 2
MaxFaults == 2

\* (startAt, limit) of the calls: the defaults, and a call with both given
PagesCalls ==
  { PagesCalled(0, 50), PagesCalled(5, 2) }

\* The searchPages calls, total being the number of results the server holds
\* for the query
SearchCalls ==
  { SearchCalled(startAt, limit, total) :
      startAt \in {0, 1}, limit \in {1, 2, 50}, total \in 0..MaxTotal }

ValidateCalls == {ValidateCalled(env) : env \in SUBSET RequiredVarNames}
ScrapeCalls == {ScrapeCalled("123456", <<<<"output">>>>, p) : p \in ScrapePages}
SaveCalls == {SaveCalled(c, fp) : c \in FileContents, fp \in FilePaths}

\* main: trace lists what main has done so far: the connectivity test, and
\* the start and the end of every scrapePage call with the page it was for;
\* call is the frame of the scrapePage call that main awaits; exit is the
\* code process.exit was called with
MainCalled(authMethod) ==
  [fn |-> "main", pc |-> "test", authMethod |-> authMethod, pages |-> <<>>, next |-> 0,
   call |-> IoIdle, trace |-> <<>>, exit |-> Null, raised |-> FALSE]

\* process.exit(1)
MainExit(f) == [f EXCEPT !.pc = "exited", !.exit = Some(1)]

\* What testDirectFetch can meet: its request for the page fails, its request
\* for the space fails, or both work
DirectFetchOutcomes == {"pageFails", "spaceFails", "ok"}

\* testDirectFetch returns true when both requests worked and false from its
\* catch otherwise
testDirectFetch(outcome) == outcome = "ok"

\* const directFetchWorking = await testDirectFetch();
\* if (!directFetchWorking) { ...; process.exit(1); }
MainTestStep(f, outcome) ==
  LET tested == [f EXCEPT !.trace = Append(@, [ev |-> "test", page |-> <<>>,
                                               ok |-> testDirectFetch(outcome)])]
  IN  IF testDirectFetch(outcome) THEN [tested EXCEPT !.pc = "client"] ELSE MainExit(tested)

\* The values of AUTH_METHOD that createConfluenceClient knows
AuthMethods == {"basic", "oauth2", "jwt", "pat"}

\* const client = createConfluenceClient(), which raises for an unknown
\* AUTH_METHOD: main's catch then ends the process
MainClientStep(f) ==
  IF f.authMethod \in AuthMethods THEN [f EXCEPT !.pc = "single"] ELSE MainExit(f)

\* The page whose scrapePage call comes next: the page of CONFLUENCE_PAGE_ID
\* first, then the pages of the space in the order of the list
MainNextPage(f) == IF f.pc = "single" THEN <<"98317">> ELSE f.pages[f.next]

\* await scrapePage(client, pageId): the call is made
MainStartStep(f) ==
  LET page == MainNextPage(f) IN
  [f EXCEPT !.call = ScrapeCalled(page, <<<<"output">>>>, [TestPage EXCEPT !.id = page]),
            !.trace = Append(@, [ev |-> "start", page |-> page, ok |-> TRUE]),
            !.pc = IF f.pc = "single" THEN "singleWait" ELSE "pageWait"]

\* A whole scrapePage call: one whose page request fails, and one in which
\* everything works for a page without attachments
ScrapeScripts == {"fetchFails", "works"}

ScrapeRun(f, script) ==
  IF script = "fetchFails" THEN ScrapeFetchStep(f, "httpError")
  ELSE LET fetched == ScrapeFetchStep(f, "ok")
           made == ScrapePageDirStep(fetched, TRUE)
           html == ScrapeHtmlStep(made, TRUE, TRUE)
           parsed == ScrapeSaveStep(html, "parsed_content.json", "text", TRUE, TRUE)
           text == ScrapeSaveStep(parsed, "content.txt", "attachments", TRUE, TRUE)
           listed == ScrapeListStep(text, "ok", 0)
           vectors == ScrapeSaveStep(listed, "vector_content.json", "metadata", TRUE, TRUE)
       IN  ScrapeMetadataStep(vectors, TRUE, TRUE)

\* MainEndStep ending the process when scrapePage returned null
MainEndStepStopsOnNull(f, script) ==
  LET ended == ScrapeRun(f.call, script)
      noted == [f EXCEPT !.call = IoIdle,
                         !.trace = Append(@, [ev |-> "end", page |-> ended.pageId,
                                              ok |-> ~ended.ret.isNull])]
  IN  IF ended.ret.isNull THEN MainExit(noted)
      ELSE IF f.pc = "singleWait" THEN [noted EXCEPT !.pc = "space"]
      ELSE [noted EXCEPT !.pc = "pages", !.next = @ + 1]

\* await scrapePage(client, pageId): the call returns; its result is not read
MainEndStep(f, script) ==
  LET ended == ScrapeRun(f.call, script)
      noted == [f EXCEPT !.call = IoIdle,
                         !.trace = Append(@, [ev |-> "end", page |-> ended.pageId,
                                              ok |-> ~ended.ret.isNull])]
  IN  IF f.pc = "singleWait" THEN [noted EXCEPT !.pc = "space"]
      ELSE [noted EXCEPT !.pc = "pages", !.next = @ + 1]

\* const pagesInSpace = await getAllPagesInSpace(client, spaceKey), r being
\* the response to its request; a page is known by its place in the response
MainSpaceStep(f, r) ==
  [f EXCEPT !.pages = MapSeq(PagesRequestStep(PagesCalled(0, 50), r).ret, LAMBDA p : <<"page", p[2]>>),
            !.next = 1,
            !.pc = "pages"]

\* for (const page of pagesInSpace) is through: "Scraping completed"
MainFinishStep(f) == [f EXCEPT !.pc = "done"]

MainCalls == {MainCalled(authMethod) : authMethod \in {"basic", "pat", "ldap"}}

IoCalls ==
  ValidateCalls \cup SaveCalls \cup ScrapeCalls \cup PagesCalls \cup SearchCalls \cup MainCalls

(***************************************************************************)
(* The state machine                                                       *)
(***************************************************************************)
VARIABLES
  chunker,  \* the frame of the extractVectorContent call
  parser,   \* the frame of the parseContent call
  second,   \* the frame of a call that runs at the same time as the first
  io,       \* the frame of a call of one of the functions that fetch or save
  log       \* the headlines written with console.error

vars == <<chunker, parser, second, io, log>>

\* One call of the chunker, or one of the parser, or two calls of the same
\* function on different documents, or one call of a function that fetches
\* or saves
Init ==
  /\ log = <<>>
  /\ \/ /\ \E d \in ChunkerDocs, pm \in PageMetadatas : chunker = ChunkerCalled(d, pm)
        /\ parser = ParserIdle
        /\ second = SecondIdle
        /\ io = IoIdle
     \/ /\ \E i \in ParserInputs : parser = ParserCalled(i)
        /\ chunker = ChunkerIdle
        /\ second = SecondIdle
        /\ io = IoIdle
     \/ /\ \E d1, d2 \in PairChunkerDocs, pm1, pm2 \in PairPageMetadatas :
             /\ d1 # d2
             /\ chunker = ChunkerCalled(d1, pm1)
             /\ second = ChunkerCalled(d2, pm2)
        /\ parser = ParserIdle
        /\ io = IoIdle
     \/ /\ \E d1, d2 \in PairParserDocs :
             /\ d1 # d2
             /\ parser = ParserCalled([isString |-> TRUE, tree |-> d1])
             /\ second = ParserCalled([isString |-> TRUE, tree |-> d2])
        /\ chunker = ChunkerIdle
        /\ io = IoIdle
     \/ /\ io \in IoCalls
        /\ chunker = ChunkerIdle
        /\ parser = ParserIdle
        /\ second = SecondIdle

\* extractVectorContent, up to the forEach
ChunkStart ==
  /\ chunker.pc = "start"
  /\ ~MetadataThrows(chunker.pageMetadata)
  /\ chunker' = ChunkerSetup(chunker)
  /\ UNCHANGED <<parser, log, second, io>>

\* baseMetadata cannot be built: the TypeError is caught
ChunkStartThrows ==
  /\ chunker.pc = "start"
  /\ MetadataThrows(chunker.pageMetadata)
  /\ chunker' = ChunkerCatch(chunker)
  /\ log' = Append(log, "Error extracting vector content:")
  /\ UNCHANGED <<parser, second, io>>

ChunkHeading ==
  /\ chunker.pc = "loop"
  /\ chunker.index <= Len(chunker.contentSections)
  /\ HeaderOf(chunker) # NullRef
  /\ chunker' = HeadingStep(chunker)
  /\ UNCHANGED <<parser, log, second, io>>

ChunkContent ==
  /\ chunker.pc = "loop"
  /\ chunker.index <= Len(chunker.contentSections)
  /\ HeaderOf(chunker) = NullRef
  /\ \E tableFails \in BOOLEAN :
       /\ tableFails => TagName(NodeAt(chunker.htmlContent, CurrentElement(chunker))) = "TABLE"
       /\ chunker' = ContentStep(chunker, tableFails)
       /\ log' = IF tableFails THEN Append(log, "Error processing table:") ELSE log
  /\ UNCHANGED <<parser, second, io>>

\* An exception raised inside the forEach callback, outside processTable
ChunkElementThrows ==
  /\ chunker.pc = "loop"
  /\ chunker.index <= Len(chunker.contentSections)
  /\ chunker' = ChunkerCatch(chunker)
  /\ log' = Append(log, "Error extracting vector content:")
  /\ UNCHANGED <<parser, second, io>>

ChunkFinalFlush ==
  /\ chunker.pc = "loop"
  /\ chunker.index > Len(chunker.contentSections)
  /\ chunker' = FinalFlush(chunker)
  /\ UNCHANGED <<parser, log, second, io>>

ChunkMetadata ==
  /\ chunker.pc = "metadata"
  /\ chunker' = MetadataStep(chunker)
  /\ UNCHANGED <<parser, log, second, io>>

ParseStart ==
  /\ parser.pc = "parse"
  /\ parser.htmlContent.isString
  /\ parser' = ParserSetup(parser)
  /\ UNCHANGED <<chunker, log, second, io>>

\* parse raises for an argument that is not a string
ParseStartThrows ==
  /\ parser.pc = "parse"
  /\ ~parser.htmlContent.isString
  /\ parser' = ParserCatch(parser, "parse")
  /\ log' = Append(log, "Error parsing HTML content:")
  /\ UNCHANGED <<chunker, second, io>>

ParseExtract ==
  /\ parser.pc = "extract"
  /\ parser' = ExtractStep(parser)
  /\ UNCHANGED <<chunker, log, second, io>>

\* An exception raised inside the sub-extraction that is being evaluated
ParseExtractThrows ==
  /\ parser.pc = "extract"
  /\ parser' = ParserCatch(parser, ParserSteps[parser.step])
  /\ log' = Append(log, "Error parsing HTML content:")
  /\ UNCHANGED <<chunker, second, io>>

\* SecondStep with the output list shared: the second call pushes onto the
\* list of the first
SecondStepSharedList ==
  /\ second.pc \notin {"idle", "done"}
  /\ second' = IF IsChunkerFrame(second)
               THEN ChunkerAdvance(IF second.pc = "loop" /\ chunker.pc = "loop"
                                   THEN [second EXCEPT !.vectors = chunker.vectors]
                                   ELSE second)
               ELSE ParserAdvance(second)
  /\ log' = log
  /\ UNCHANGED <<chunker, parser, io>>

\* A step of the second call: its frame alone is read and written
SecondStep ==
  /\ second.pc \notin {"idle", "done"}
  /\ second' = IF IsChunkerFrame(second) THEN ChunkerAdvance(second) ELSE ParserAdvance(second)
  /\ log' = IF IsChunkerFrame(second)
            THEN (IF ChunkerAdvanceCatches(second)
                  THEN Append(log, "Error extracting vector content:") ELSE log)
            ELSE (IF ParserAdvanceCatches(second)
                  THEN Append(log, "Error parsing HTML content:") ELSE log)
  /\ UNCHANGED <<chunker, parser, io>>

IoIs(fn, pc) == io.pc = pc /\ io.fn = fn

\* validateConfiguration: the loop over requiredVars
ValidateVars ==
  /\ IoIs("validateConfiguration", "vars")
  /\ io' = ValidateVarsStep(io)
  /\ log' = log \o MissingVarLines(io.env)
  /\ UNCHANGED <<chunker, parser, second>>

\* validateConfiguration: "Test space access"
ValidateSpace ==
  /\ IoIs("validateConfiguration", "space")
  /\ \E outcome \in ApiOutcomes :
       io' = ValidateApiStep(io, "CONFLUENCE_SPACE_KEY", "getSpace", "page", outcome)
  /\ log' = IF io'.pc = "done"
            THEN Append(log, "[Validation] API connectivity test failed:") ELSE log
  /\ UNCHANGED <<chunker, parser, second>>

\* validateConfiguration: "Test page access", return true
ValidatePage ==
  /\ IoIs("validateConfiguration", "page")
  /\ \E outcome \in ApiOutcomes :
       io' = ValidateApiStep(io, "CONFLUENCE_PAGE_ID", "getContentById", "done", outcome)
  /\ log' = IF ~io'.ret
            THEN Append(log, "[Validation] API connectivity test failed:") ELSE log
  /\ UNCHANGED <<chunker, parser, second>>

\* saveContentToFile: "Ensure directory exists"
SaveMkdir ==
  /\ IoIs("saveContentToFile", "mkdir")
  /\ \E ok \in BOOLEAN : io' = SaveMkdirStep(io, ok)
  /\ log' = IF io'.pc = "done" THEN Append(log, "Error saving content to") ELSE log
  /\ UNCHANGED <<chunker, parser, second>>

\* saveContentToFile: "Write to file"
SaveWrite ==
  /\ IoIs("saveContentToFile", "write")
  /\ \E ok \in BOOLEAN : io' = SaveWriteStep(io, ok)
  /\ log' = IF io'.ret.isNull THEN Append(log, "Error saving content to") ELSE log
  /\ UNCHANGED <<chunker, parser, second>>

\* Lines of console.error of the saveContentToFile calls among the steps
\* added to ops
SaveLines(before, after) ==
  IF Len(after.ops) > Len(before.ops) /\ ~after.ops[Len(after.ops)].ok
  THEN <<"Error saving content to">> ELSE <<>>

\* Line of the catch of scrapePage
CatchLines(after) ==
  IF after.pc = "done" /\ after.ret.isNull THEN <<"Failed to scrape page">> ELSE <<>>

\* A step may fail only while fewer than MaxFaults steps of the call failed
MayFail(ok) == ok \/ Faults(io) < MaxFaults

\* scrapePage: "Get page content"
ScrapeFetch ==
  /\ IoIs("scrapePage", "fetch")
  /\ \E outcome \in PageFetchOutcomes :
       /\ io' = ScrapeFetchStep(io, outcome)
       /\ log' = log \o (IF outcome = "ok" THEN <<>> ELSE <<"[API] Error fetching page">>)
                     \o CatchLines(io')
  /\ UNCHANGED <<chunker, parser, second>>

\* scrapePage: "Create directory for this page"
ScrapePageDir ==
  /\ IoIs("scrapePage", "pageDir")
  /\ \E ok \in BOOLEAN :
       /\ MayFail(ok)
       /\ io' = ScrapePageDirStep(io, ok)
  /\ log' = log \o CatchLines(io')
  /\ UNCHANGED <<chunker, parser, second>>

\* scrapePage: "Extract HTML content", "Save original HTML"
ScrapeHtml ==
  /\ IoIs("scrapePage", "html")
  /\ \E mkOk, wrOk \in BOOLEAN :
       /\ MayFail(mkOk /\ wrOk)
       /\ io' = ScrapeHtmlStep(io, mkOk, wrOk)
  /\ log' = log \o SaveLines(io, io') \o CatchLines(io')
  /\ UNCHANGED <<chunker, parser, second>>

\* scrapePage: "Parse HTML and extract information", "Save parsed content as
\* JSON"; parseContentHtml returns a record whatever happens
ScrapeParsed ==
  /\ IoIs("scrapePage", "parsed")
  /\ \E mkOk, wrOk \in BOOLEAN :
       /\ MayFail(mkOk /\ wrOk)
       /\ io' = ScrapeSaveStep(io, "parsed_content.json", "text", mkOk, wrOk)
  /\ log' = log \o SaveLines(io, io')
  /\ UNCHANGED <<chunker, parser, second>>

\* scrapePage: "Save plain text content"
ScrapeText ==
  /\ IoIs("scrapePage", "text")
  /\ \E mkOk, wrOk \in BOOLEAN :
       /\ MayFail(mkOk /\ wrOk)
       /\ io' = ScrapeSaveStep(io, "content.txt", "attachments", mkOk, wrOk)
  /\ log' = log \o SaveLines(io, io')
  /\ UNCHANGED <<chunker, parser, second>>

\* scrapePage: "Download attachments", the listing
ScrapeAttachments ==
  /\ IoIs("scrapePage", "attachments")
  /\ \E outcome \in ListOutcomes, n \in 0..MaxAttachments :
       /\ MayFail(outcome # "rejects")
       /\ outcome # "ok" => n = 0
       /\ io' = ScrapeListStep(io, outcome, n)
       /\ log' = log \o (IF outcome = "rejects"
                         THEN <<"[API] Error fetching attachments for page">> ELSE <<>>)
  /\ UNCHANGED <<chunker, parser, second>>

\* scrapePage: "Create attachments directory"
ScrapeAttachmentsDir ==
  /\ IoIs("scrapePage", "attachmentsDir")
  /\ \E ok \in BOOLEAN :
       /\ MayFail(ok)
       /\ io' = ScrapeAttachmentsDirStep(io, ok)
  /\ log' = log \o CatchLines(io')
  /\ UNCHANGED <<chunker, parser, second>>

\* scrapePage: one downloadAttachment call of the for loop
ScrapeDownload ==
  /\ IoIs("scrapePage", "download")
  /\ \E outcome \in DownloadOutcomes :
       /\ MayFail(outcome = "ok")
       /\ io' = ScrapeDownloadStep(io, outcome)
       /\ log' = log \o (IF outcome = "ok" THEN <<>>
                         ELSE <<"[API] Error downloading attachment">>)
  /\ UNCHANGED <<chunker, parser, second>>

\* scrapePage: extractVectorContent, which returns a list whatever happens,
\* and "Save vector content with better error handling"
ScrapeVectors ==
  /\ IoIs("scrapePage", "vectors")
  /\ \E mkOk, wrOk \in BOOLEAN :
       /\ MayFail(mkOk /\ wrOk)
       /\ io' = ScrapeSaveStep(io, "vector_content.json", "metadata", mkOk, wrOk)
  /\ log' = log \o SaveLines(io, io')
  /\ UNCHANGED <<chunker, parser, second>>

\* scrapePage: "Save metadata", return
ScrapeMetadata ==
  /\ IoIs("scrapePage", "metadata")
  /\ \E mkOk, wrOk \in BOOLEAN :
       /\ MayFail(mkOk /\ wrOk)
       /\ io' = ScrapeMetadataStep(io, mkOk, wrOk)
  /\ log' = log \o SaveLines(io, io') \o CatchLines(io')
  /\ UNCHANGED <<chunker, parser, second>>

\* getAllPagesInSpace: the request of one call and what follows from the
\* response; the last request the bound allows gets a response that ends the
\* fetch
PagesRequest ==
  /\ IoIs("getAllPagesInSpace", "request")
  /\ \E r \in PagesResponses(Len(io.levels) + 1) :
       /\ Len(io.levels) + 1 = MaxRequests => ~PagesContinues(r)
       /\ io' = PagesRequestStep(io, r)
       /\ log' = IF PagesValid(r) THEN log ELSE Append(log, "[API] Error fetching pages in space")
  /\ UNCHANGED <<chunker, parser, second>>

\* searchPages: the request of one call and what follows from the response
SearchRequest ==
  /\ IoIs("searchPages", "request")
  /\ \E r \in SearchResponses(io.total, NextStartAt(io), io.limit) :
       /\ io' = SearchRequestStep(io, r)
       /\ log' = IF SearchValid(r) THEN log ELSE Append(log, "[API] Error searching for")
  /\ UNCHANGED <<chunker, parser, second>>

\* main: "Testing direct fetch first"
MainTest ==
  /\ IoIs("main", "test")
  /\ \E outcome \in DirectFetchOutcomes :
       /\ io' = MainTestStep(io, outcome)
       /\ log' = IF outcome = "ok" THEN log
                 ELSE log \o <<"[Test] Direct fetch failed:", "[Main] Direct API access failed.">>
  /\ UNCHANGED <<chunker, parser, second>>

\* main: "Initializing Confluence client"
MainClient ==
  /\ IoIs("main", "client")
  /\ io' = MainClientStep(io)
  /\ log' = IF io'.pc = "exited" THEN Append(log, "[Main] Fatal error in scraping process:")
            ELSE log
  /\ UNCHANGED <<chunker, parser, second>>

\* main: a scrapePage call starts, for the single page or for the next page
\* of the space
MainStart ==
  /\ \/ IoIs("main", "single")
     \/ IoIs("main", "pages") /\ io.next <= Len(io.pages)
  /\ io' = MainStartStep(io)
  /\ UNCHANGED <<chunker, parser, second, log>>

\* main: the scrapePage call returns
MainEnd ==
  /\ IoIs("main", "singleWait") \/ IoIs("main", "pageWait")
  /\ \E script \in ScrapeScripts :
       /\ io' = MainEndStep(io, script)
       /\ log' = IF script = "works" THEN log
                 ELSE log \o <<"[API] Error fetching page", "Failed to scrape page">>
  /\ UNCHANGED <<chunker, parser, second>>

\* main: "Scrape all pages in space", the list being fetched with one request
MainSpace ==
  /\ IoIs("main", "space")
  /\ \E r \in PagesResponses(1) :
       /\ ~PagesContinues(r)
       /\ io' = MainSpaceStep(io, r)
       /\ log' = IF PagesValid(r) THEN log ELSE Append(log, "[API] Error fetching pages in space")
  /\ UNCHANGED <<chunker, parser, second>>

\* main: the loop over the pages is through
MainFinish ==
  /\ IoIs("main", "pages")
  /\ io.next > Len(io.pages)
  /\ io' = MainFinishStep(io)
  /\ UNCHANGED <<chunker, parser, second, log>>

Next ==
  \/ ChunkStart
  \/ ChunkStartThrows
  \/ ChunkHeading
  \/ ChunkContent
  \/ ChunkElementThrows
  \/ ChunkFinalFlush
  \/ ChunkMetadata
  \/ ParseStart
  \/ ParseStartThrows
  \/ ParseExtract
  \/ ParseExtractThrows
  \/ SecondStep
  \/ ValidateVars
  \/ ValidateSpace
  \/ ValidatePage
  \/ SaveMkdir
  \/ SaveWrite
  \/ ScrapeFetch
  \/ ScrapePageDir
  \/ ScrapeHtml
  \/ ScrapeParsed
  \/ ScrapeText
  \/ ScrapeAttachments
  \/ ScrapeAttachmentsDir
  \/ ScrapeDownload
  \/ ScrapeVectors
  \/ ScrapeMetadata
  \/ PagesRequest
  \/ SearchRequest
  \/ MainTest
  \/ MainClient
  \/ MainStart
  \/ MainEnd
  \/ MainSpace
  \/ MainFinish

Spec == Init /\ [][Next]_vars

ChunkerNext ==
  \/ ChunkStart \/ ChunkStartThrows \/ ChunkHeading \/ ChunkContent
  \/ ChunkElementThrows \/ ChunkFinalFlush \/ ChunkMetadata

ParserNext == ParseStart \/ ParseStartThrows \/ ParseExtract \/ ParseExtractThrows

(***************************************************************************)
(* Properties                                                              *)
(***************************************************************************)
\* The outer catch of extractVectorContent ran
ChunkerFailed == \E i \in 1..Len(log) : log[i] = "Error extracting vector content:"

ChunkerDone == chunker.pc = "done"
ParserDone == parser.pc = "done"

SectionCount(vs) == Cardinality({i \in 1..Len(vs) : vs[i].type = "section"})

\* C1: when the chunker returns for a page record that has its space and
\* version fields, and no exception was raised while chunking, the array it
\* returns is not empty, its last element has type "metadata" and the id
\* "<pageId>-metadata", no other element has type "metadata", and for the
\* empty markup that element is the only one.
C1_MetadataChunkLast ==
  (ChunkerDone /\ ~MetadataThrows(chunker.pageMetadata) /\ ~ChunkerFailed) =>
    LET r == chunker.ret IN
    /\ Len(r) >= 1
    /\ r[Len(r)].type = "metadata"
    /\ r[Len(r)].id = <<chunker.pageMetadata.id, "-metadata">>
    /\ \A i \in 1..(Len(r) - 1) : r[i].type # "metadata"
    /\ chunker.htmlContent = Root(<<>>) => Len(r) = 1

\* C1 witness: a returned array of two section chunks followed by the
\* metadata chunk
C1_Witness ==
  /\ ChunkerDone /\ ~ChunkerFailed
  /\ Len(chunker.ret) = 3
  /\ chunker.ret[1].type = "section" /\ chunker.ret[2].type = "section"
  /\ chunker.ret[3].type = "metadata"

\* C2: in the list under construction and in the returned array, the
\* section chunk at 0-based position i has the id "<pageId>-chunk-<i>",
\* whichever flush pushed it, and no two chunks share an id.
C2_ChunkIdsCountUp ==
  (chunker.pc \in {"loop", "metadata", "done"}) =>
    LET idsOk(vs) ==
          /\ \A i \in 1..Len(vs) :
               vs[i].type = "section" => vs[i].id = <<chunker.pageMetadata.id, "-chunk-", i - 1>>
          /\ \A i, j \in 1..Len(vs) : i # j => vs[i].id # vs[j].id
    IN  idsOk(chunker.vectors) /\ idsOk(chunker.ret)

\* C2 witness: <p>w1500</p> followed by the headed div: the size flush, the
\* heading flush and the final flush each pushed one chunk
C2_Witness ==
  /\ ChunkerDone /\ ~ChunkerFailed
  /\ chunker.htmlContent = Root(<<P(<<"w1500">>), HeadedDiv>>)
  /\ Len(chunker.ret) = 4
  /\ chunker.ret[3].id = <<chunker.pageMetadata.id, "-chunk-", 2>>
  /\ chunker.ret[1].metadata.section = <<"Main", SP, "Content">>
  /\ chunker.ret[3].metadata.section = <<"A">>

NineFields ==
  {"metadata", "title", "sections", "tables", "lists", "codeBlocks", "links",
   "images", "macros"}

\* C3: parseContent never raises and always returns: what it returns holds
\* either exactly the nine fields or exactly the error message and the
\* argument as it was passed.
C3_ParseNeverRaises ==
  (parser.pc # "idle") =>
    /\ ~parser.raised
    /\ parser.pc \in {"parse", "extract", "done"}
    /\ ParserDone =>
         \/ DOMAIN parser.ret = NineFields
         \/ /\ DOMAIN parser.ret = {"error", "htmlContent"}
            /\ parser.ret.htmlContent = parser.htmlContent

\* C3 witness: an exception in extractTables, after three fields had been
\* evaluated, gave the error record
C3_Witness ==
  /\ ParserDone
  /\ DOMAIN parser.fields = {"metadata", "title", "sections"}
  /\ DOMAIN parser.ret = {"error", "htmlContent"}
  /\ parser.ret.error = "tables"

\* C4: extractVectorContent never raises and always returns; when an
\* exception was raised while chunking, and so for every page record without
\* space, version or version.by, it returns the empty array, whatever the
\* list under construction held.
C4_ChunkerNeverRaises ==
  (chunker.pc # "idle") =>
    /\ ~chunker.raised
    /\ chunker.pc \in {"start", "loop", "metadata", "done"}
    /\ (ChunkerDone /\ ChunkerFailed) => chunker.ret = <<>>
    /\ (ChunkerDone /\ MetadataThrows(chunker.pageMetadata)) =>
         ChunkerFailed /\ chunker.ret = <<>>

\* C4 witness: the exception came when two chunks had been pushed
C4_Witness ==
  /\ ChunkerDone /\ ChunkerFailed
  /\ Len(chunker.vectors) = 2
  /\ chunker.ret = <<>>

CountLog(m) == Cardinality({i \in 1..Len(log) : log[i] = m})

\* The catch of parseContent ran
ParserFailed == CountLog("Error parsing HTML content:") > 0

\* The catch of processTable ran
TableFailed == CountLog("Error processing table:") > 0

\* The positions in contentSections of the elements of the else branch
ContentPositions ==
  {i \in 1..Len(chunker.contentSections) :
     QuerySelector(chunker.htmlContent, chunker.contentSections[i], HeadingTags) = NullRef}

TablePositions ==
  {i \in ContentPositions :
     TagName(NodeAt(chunker.htmlContent, chunker.contentSections[i])) = "TABLE"}

SomeSectionIncludes(vs, text) ==
  \E k \in 1..Len(vs) : vs[k].type = "section" /\ Includes(vs[k].content, text)

\* C5 as stated: after a failure inside a sub-extraction the call still
\* returns its normal shape: parseContent the nine fields, with the fields
\* evaluated before the failure as they were, and extractVectorContent a
\* list that ends with the metadata chunk.
C5_FailureCaughtLocally ==
  /\ (ParserDone /\ ParserFailed /\ parser.step >= 1) =>
       /\ DOMAIN parser.ret = NineFields
       /\ \A name \in DOMAIN parser.fields : parser.ret[name] = parser.fields[name]
  /\ (ChunkerDone /\ TableFailed /\ ~ChunkerFailed) =>
       /\ Len(chunker.ret) >= 1
       /\ chunker.ret[Len(chunker.ret)].type = "metadata"

\* C5 (amended): only processTable catches locally.  After a failure inside
\* a sub-extraction of parseContent the whole parse is given up: the error
\* record is returned and no field of the nine is delivered.  After a
\* failure inside processTable the chunk call goes on: the list ends with
\* the metadata chunk, the text of every other element is part of a section
\* chunk, and when every table failed no chunk holds a table row, a page of
\* nothing but tables giving the metadata chunk alone.
C5_OnlyTableFailureIsLocal ==
  /\ (ParserDone /\ ParserFailed /\ parser.step >= 1) =>
       /\ DOMAIN parser.ret = {"error", "htmlContent"}
       /\ parser.ret.error = ParserSteps[parser.step]
       /\ DOMAIN parser.fields \subseteq NineFields
  /\ (ChunkerDone /\ TableFailed /\ ~ChunkerFailed) =>
       LET r == chunker.ret
           root == chunker.htmlContent
       IN  /\ Len(r) >= 1
           /\ r[Len(r)].type = "metadata"
           /\ \A i \in ContentPositions \ TablePositions :
                LET text == RenderElement(root, chunker.contentSections[i], FALSE) IN
                text # <<>> => SomeSectionIncludes(r, text)
           /\ CountLog("Error processing table:") = Cardinality(TablePositions) =>
                /\ ~SomeSectionIncludes(r, <<"Row:">>)
                /\ TablePositions = 1..Len(chunker.contentSections) => Len(r) = 1

\* C5 witness: the table of <table>...</table><p>x</p> failed and the
\* paragraph was still chunked
C5_Witness ==
  /\ ChunkerDone /\ TableFailed /\ ~ChunkerFailed
  /\ chunker.htmlContent = Root(<<SpanTable, P(<<"x">>)>>)
  /\ Len(chunker.ret) = 2
  /\ chunker.ret[1].content = <<"x">>

\* The sections of the parsed document, once extractSections has run
SectionsEvaluated == parser.pc \in {"extract", "done"} /\ "sections" \in DOMAIN parser.fields

ParsedRoot == parser.htmlContent.tree

LevelOfTag(tag) ==
  CASE tag = "h1" -> 1 [] tag = "h2" -> 2 [] tag = "h3" -> 3
    [] tag = "h4" -> 4 [] tag = "h5" -> 5 [] tag = "h6" -> 6 [] OTHER -> 0

\* The members of a set of numbers in ascending order
RECURSIVE Ascending(_)
Ascending(S) ==
  IF S = {} THEN <<>>
  ELSE LET m == CHOOSE x \in S : \A y \in S : x <= y IN <<m>> \o Ascending(S \ {m})

\* The markup of the run of sibling elements that follow the heading at
\* `header`, up to the first sibling heading of a level <= the heading's
ExpectedSectionContent(root, header) ==
  LET parent == NodeAt(root, SubSeq(header, 1, Len(header) - 1))
      j == header[Len(header)]
      L == LevelOfTag(NodeAt(root, header).tag)
      closing == {m \in (j + 1)..Len(parent.kids) :
                    LevelOfTag(parent.kids[m].tag) \in 1..L}
      run == {m \in (j + 1)..Len(parent.kids) :
                /\ IsElement(parent.kids[m])
                /\ \A c \in closing : m < c}
  IN  Flatten(MapSeq(Ascending(run), LAMBDA m : OuterHTML(parent.kids[m])))

\* C6: the k-th section that extractSections returns belongs to the k-th
\* heading of the document, and its content is the markup of the sibling
\* elements that follow the heading, up to and excluding the first sibling
\* heading whose level is <= the heading's level, or up to the last sibling.
C6_SectionRunEndsAtHeading ==
  SectionsEvaluated =>
    LET headers == QuerySelectorAll(ParsedRoot, <<>>, HeadingTags)
        sections == parser.fields["sections"]
    IN  /\ Len(sections) = Len(headers)
        /\ \A k \in 1..Len(headers) :
             /\ sections[k].level = LevelOfTag(NodeAt(ParsedRoot, headers[k]).tag)
             /\ sections[k].content = ExpectedSectionContent(ParsedRoot, headers[k])

\* C6 witness: in <div><h2>B</h2><p>x</p><h3>C</h3>b<p>y</p><h1>A</h1><p>x</p></div>
\* the section of B holds the deeper heading C and ends before A
C6_Witness ==
  /\ ParserDone /\ ~ParserFailed
  /\ ParsedRoot = Root(<<LevelsDiv>>)
  /\ Len(parser.ret["sections"]) = 3
  /\ parser.ret["sections"][1].level = 2
  /\ parser.ret["sections"][1].textContent = <<"x", NL, "C", NL, "y">>
  /\ parser.ret["sections"][2].textContent = <<"y">>
  /\ parser.ret["sections"][3].textContent = <<"x">>

SectionSummary(section) ==
  [level |-> section.level, title |-> section.title, textContent |-> section.textContent]

\* C7 as stated: <h1>A</h1><p>x</p><h2>B</h2><p>y</p> gives the sections
\* {1, "A", "x"} and {2, "B", "y"}.
C7_ExampleSectionsDisjoint ==
  (SectionsEvaluated /\ ParsedRoot = SectionsExample) =>
    MapSeq(parser.fields["sections"], SectionSummary)
      = <<[level |-> 1, title |-> <<"A">>, textContent |-> <<"x">>],
          [level |-> 2, title |-> <<"B">>, textContent |-> <<"y">>]>>

\* C7 (amended): <h1>A</h1><p>x</p><h2>B</h2><p>y</p> gives two sections in
\* document order, {1, "A", "x\nB\ny"} and {2, "B", "y"}: the level-1
\* section runs over the deeper heading and the text that follows it.
C7_ExampleSectionsNested ==
  (SectionsEvaluated /\ ParsedRoot = SectionsExample) =>
    MapSeq(parser.fields["sections"], SectionSummary)
      = <<[level |-> 1, title |-> <<"A">>, textContent |-> <<"x", NL, "B", NL, "y">>],
          [level |-> 2, title |-> <<"B">>, textContent |-> <<"y">>]>>

\* C7 witness: the example document has been parsed to the end
C7_Witness ==
  /\ ParserDone /\ ~ParserFailed
  /\ ParsedRoot = SectionsExample
  /\ Len(parser.ret["sections"]) = 2
  /\ parser.ret["sections"][1].content
       = <<"<", "p", ">", "x", "</", "p", ">", "<", "h2", ">", "B", "</", "h2", ">",
           "<", "p", ">", "y", "</", "p", ">">>

Max(S) == CHOOSE x \in S : \A y \in S : y <= x

\* The length of the text that the element at position i of contentSections
\* gives the accumulator: its heading's text, or its rendered text
TextLengthAt(i) ==
  LET root == chunker.htmlContent
      element == chunker.contentSections[i]
      header == QuerySelector(root, element, HeadingTags)
  IN  IF header # NullRef THEN StrLen(Trim(TextContent(NodeAt(root, header))))
      ELSE StrLen(RenderElement(root, element, FALSE))

\* The elements the loop has dealt with
PositionsDone == {i \in 1..Len(chunker.contentSections) : i < chunker.index}

LongestTextSoFar == Max({TextLengthAt(i) : i \in PositionsDone} \cup {0})

ChunkerLooping == chunker.pc \in {"loop", "metadata", "done"}

\* C8 as stated: whenever the loop starts on the next element the
\* accumulator holds at most 1000 characters.
C8_AccumulatorWithinLimit ==
  chunker.pc = "loop" => StrLen(chunker.currentChunk.content) <= ChunkSizeLimit

\* C8 (amended): the accumulator can start an element over 1000 characters,
\* because the overlap kept after a size flush is not capped: when the loop
\* starts on the next element the accumulator holds at most 1000 characters
\* or one more than the length of the longest single text seen so far,
\* whichever is larger (the one more is the newline that ends a table's text
\* and that split leaves at the head of the next paragraph); a section chunk
\* is at most that much, plus the 2-character separator, plus the length of
\* one text; and an element whose rendered text is longer than 1000
\* characters gives more than one section chunk.
C8_AccumulatorBoundedByLongestText ==
  ChunkerLooping =>
    LET start == Max({ChunkSizeLimit, LongestTextSoFar + 1}) IN
    /\ StrLen(chunker.currentChunk.content) <= start
    /\ \A k \in 1..Len(chunker.vectors) :
         StrLen(chunker.vectors[k].content) <= start + 2 + LongestTextSoFar
    /\ (ChunkerDone /\ ~ChunkerFailed /\ ~TableFailed
          /\ \E i \in ContentPositions : TextLengthAt(i) > ChunkSizeLimit)
         => SectionCount(chunker.ret) >= 2

\* C8 witness: <p>w1500</p><p>x</p>: the second element started on an
\* accumulator of 1500 characters and the second chunk has 1503
C8_Witness ==
  /\ ChunkerDone /\ ~ChunkerFailed
  /\ chunker.htmlContent = Root(<<P(<<"w1500">>), P(<<"x">>)>>)
  /\ Len(chunker.ret) = 4
  /\ StrLen(chunker.ret[1].content) = 1500
  /\ StrLen(chunker.ret[2].content) = 1503
  /\ chunker.ret[3].content = <<"x">>

\* The tables of the parsed document, once extractTables has run
TablesEvaluated == parser.pc \in {"extract", "done"} /\ "tables" \in DOMAIN parser.fields

\* C9: the k-th table that extractTables returns belongs to the k-th table
\* element; its headers are the trimmed texts of the table's th descendants
\* in document order; its rows are, in document order, one entry for each
\* tr that has at least one td, the entry holding one cell for each td of
\* the tr; a tr without td gives no entry.
C9_RowsAreRowsWithCells ==
  TablesEvaluated =>
    LET root == ParsedRoot
        tableRefs == QuerySelectorAll(root, <<>>, {"table"})
        tables == parser.fields["tables"]
    IN  /\ Len(tables) = Len(tableRefs)
        /\ \A k \in 1..Len(tableRefs) :
             LET ths == QuerySelectorAll(root, tableRefs[k], {"th"})
                 dataRows == SelectSeq(QuerySelectorAll(root, tableRefs[k], {"tr"}),
                                       LAMBDA tr : QuerySelector(root, tr, {"td"}) # NullRef)
             IN  /\ Len(tables[k].headers) = Len(ths)
                 /\ \A h \in 1..Len(ths) :
                      tables[k].headers[h] = Trim(TextContent(NodeAt(root, ths[h])))
                 /\ Len(tables[k].rows) = Len(dataRows)
                 /\ \A j \in 1..Len(dataRows) :
                      LET tds == QuerySelectorAll(root, dataRows[j], {"td"}) IN
                      /\ Len(tables[k].rows[j]) = Len(tds)
                      /\ Len(tds) >= 1
                      /\ \A c \in 1..Len(tds) :
                           tables[k].rows[j][c].text = Trim(TextContent(NodeAt(root, tds[c])))

\* C9 witness: a table of one header row and two data rows gave two rows
C9_Witness ==
  /\ ParserDone /\ ~ParserFailed
  /\ ParsedRoot = Root(<<SpanTable>>)
  /\ Len(parser.ret["tables"]) = 1
  /\ parser.ret["tables"][1].headers = <<<<"a">>, <<"b">>>>
  /\ Len(parser.ret["tables"][1].rows) = 2
  /\ Len(parser.ret["tables"][1].rows[1]) = 3
  /\ Len(parser.ret["tables"][1].rows[2]) = 2

\* C10: every cell that extractTables returns has a colspan >= 1 and a
\* rowspan >= 1.
C10_SpansAtLeastOne ==
  TablesEvaluated =>
    \A k \in 1..Len(parser.fields["tables"]) :
      \A j \in 1..Len(parser.fields["tables"][k].rows) :
        \A c \in 1..Len(parser.fields["tables"][k].rows[j]) :
          LET cell == parser.fields["tables"][k].rows[j][c] IN
          /\ ~cell.colspan.nan /\ cell.colspan.v >= 1
          /\ ~cell.rowspan.nan /\ cell.rowspan.v >= 1

\* The lists of the parsed document, once extractLists has run
ListsEvaluated == parser.pc \in {"extract", "done"} /\ "lists" \in DOMAIN parser.fields

\* The items that extractLists returned, each with the reference of its li:
\* the j-th item of the k-th list belongs to the j-th li under the k-th
\* list element of the kind
ReturnedItems ==
  LET root == ParsedRoot
      of(selector, lists) ==
        LET refs == QuerySelectorAll(root, <<>>, {selector}) IN
        UNION {{[li |-> QuerySelectorAll(root, refs[k], {"li"})[j], item |-> lists[k][j]] :
                  j \in 1..Len(lists[k])} : k \in 1..Len(lists)}
  IN  of("ol", parser.fields["lists"].ordered) \cup of("ul", parser.fields["lists"].unordered)

IsPrefix(p, q) == Len(p) <= Len(q) /\ SubSeq(q, 1, Len(p)) = p

\* The ul children of the node at p
UlChildren(root, p) ==
  {i \in 1..Len(NodeAt(root, p).kids) : NodeAt(root, p).kids[i].tag = "ul"}

C13_ProvenanceFromPageRecord ==
  (ChunkerLooping /\ ~MetadataThrows(chunker.pageMetadata)) =>
    LET pm == chunker.pageMetadata
        ok(v) ==
          /\ v.title = pm.title
          /\ v.pageId = pm.id
          /\ v.spaceKey = pm.space.key
          /\ v.metadata.lastUpdated = pm.version.when
          /\ v.metadata.author = pm.version.by.displayName
          /\ v.metadata.url
               = <<CONFLUENCE_HOST, "/wiki/spaces/", pm.space.key, "/pages/", pm.id>>
    IN  /\ \A k \in 1..Len(chunker.vectors) : ok(chunker.vectors[k])
        /\ \A k \in 1..Len(chunker.ret) : ok(chunker.ret[k])

\* C13 witness: the chunks of the three flushes and the metadata chunk, for
\* the page 98317 of the space DOCS
C13_Witness ==
  /\ ChunkerDone /\ ~ChunkerFailed
  /\ chunker.pageMetadata.id = "98317"
  /\ chunker.htmlContent = Root(<<P(<<"w1500">>), HeadedDiv>>)
  /\ Len(chunker.ret) = 4
  /\ chunker.ret[4].type = "metadata"
  /\ chunker.ret[2].metadata.url
       = <<CONFLUENCE_HOST, "/wiki/spaces/", "DOCS", "/pages/", "98317">>
  /\ chunker.ret[4].metadata.author = "A. Writer"

\* The lines of a table: the header line when there is a th, then a line
\* for each tr that holds a td
RECURSIVE JoinedWithBar(_, _, _)
JoinedWithBar(root, cells, i) ==
  IF i > Len(cells) THEN <<>>
  ELSE (IF i > 1 THEN <<SP, "|", SP>> ELSE <<>>)
       \o Trim(TextContent(NodeAt(root, cells[i]))) \o JoinedWithBar(root, cells, i + 1)

RECURSIVE RowLines(_, _, _)
RowLines(root, trs, i) ==
  IF i > Len(trs) THEN <<>>
  ELSE LET tds == QuerySelectorAll(root, trs[i], {"td"}) IN
       (IF Len(tds) >= 1 THEN <<"Row:", SP>> \o JoinedWithBar(root, tds, 1) \o <<NL>> ELSE <<>>)
       \o RowLines(root, trs, i + 1)

ExpectedTableText(root, table) ==
  LET ths == QuerySelectorAll(root, table, {"th"}) IN
  (IF Len(ths) >= 1
   THEN <<"Table", SP, "Headers:", SP>> \o JoinedWithBar(root, ths, 1) \o <<NL>>
   ELSE <<>>)
  \o RowLines(root, QuerySelectorAll(root, table, {"tr"}), 1)

\* C14: for every table the chunker renders, processTable gives the line
\* "Table Headers: " with the trimmed th texts joined by " | " exactly when
\* the table has a th, then a line "Row: " with the trimmed td texts joined
\* by " | " for each tr that has a td, in document order, and the empty
\* string for a table without th and td; when no exception occurs that text
\* is part of a section chunk.
C14_TableLines ==
  ChunkerLooping =>
    \A i \in TablePositions :
      LET root == chunker.htmlContent
          table == chunker.contentSections[i]
          text == processTable(root, table)
      IN  /\ text = ExpectedTableText(root, table)
          /\ (QuerySelector(root, table, {"th"}) = NullRef
                /\ QuerySelector(root, table, {"td"}) = NullRef) => text = <<>>
          /\ (ChunkerDone /\ ~ChunkerFailed /\ ~TableFailed /\ text # <<>>)
               => SomeSectionIncludes(chunker.ret, TrimEnd(text))

\* C14 witness: the table of a header row and two data rows was rendered to
\* three lines and chunked
C14_Witness ==
  /\ ChunkerDone /\ ~ChunkerFailed /\ ~TableFailed
  /\ chunker.htmlContent = Root(<<SpanTable>>)
  /\ chunker.ret[1].content
       = <<"Table", SP, "Headers:", SP, "a", SP, "|", SP, "b", NL,
           "Row:", SP, "x", SP, "|", SP, "y", SP, "|", SP, "x", NL,
           "Row:", SP, "y", SP, "|">>

\* C15: every section chunk, of the list under construction and of the
\* returned array, has a content that holds a character that is not
\* whitespace.
C15_SectionContentNotBlank ==
  ChunkerLooping =>
    LET ok(v) == v.type = "section" => (v.content # <<>> /\ Trim(v.content) # <<>>)
    IN  /\ \A k \in 1..Len(chunker.vectors) : ok(chunker.vectors[k])
        /\ \A k \in 1..Len(chunker.ret) : ok(chunker.ret[k])

\* C15 witness: <p> </p> followed by the headed div: the blank paragraph
\* added nothing, the heading flush found a blank accumulator and pushed
\* nothing, and the final flush pushed the only section chunk
C15_Witness ==
  /\ ChunkerDone /\ ~ChunkerFailed
  /\ chunker.htmlContent = Root(<<P(<<SP>>), HeadedDiv>>)
  /\ Len(chunker.ret) = 2
  /\ chunker.ret[1].content = <<"A", NL, NL, "x", NL, NL, "y">>

TwoCalls == second.pc # "idle"

\* C12: when two calls of extractVectorContent, or two of parseContent, on
\* different documents take their steps in any order, each returns what the
\* call returns when it runs from its arguments alone (the empty array when
\* an exception was raised in it), and the two frames never hold the same
\* list under construction.
C12_CallsDoNotInterfere ==
  TwoCalls =>
    /\ (second.pc = "done" /\ IsChunkerFrame(second)) =>
         second.ret = ChunkerRun(ChunkerCalled(second.htmlContent, second.pageMetadata))
    /\ (second.pc = "done" /\ ~IsChunkerFrame(second)) =>
         second.ret = ParserRun(ParserCalled(second.htmlContent))
    /\ (ChunkerDone /\ ~ChunkerFailed /\ ~TableFailed) =>
         chunker.ret = ChunkerRun(ChunkerCalled(chunker.htmlContent, chunker.pageMetadata))
    /\ (ChunkerDone /\ ChunkerFailed) => chunker.ret = <<>>
    /\ (ParserDone /\ ~ParserFailed) =>
         parser.ret = ParserRun(ParserCalled(parser.htmlContent))
    /\ (ParserDone /\ ParserFailed) => DOMAIN parser.ret = {"error", "htmlContent"}

\* C12 witness: two chunk calls have returned, the first four chunks for
\* the page 123456 and the second two chunks for the page 98317
C12_Witness ==
  /\ TwoCalls /\ ChunkerDone /\ second.pc = "done" /\ ~ChunkerFailed /\ ~TableFailed
  /\ chunker.htmlContent = Root(<<P(<<"w999">>), P(<<"x">>)>>)
  /\ second.htmlContent = Root(<<HeadedDiv>>)
  /\ chunker.pageMetadata.id = "123456" /\ second.pageMetadata.id = "98317"
  /\ Len(chunker.ret) = 4
  /\ Len(second.ret) = 2
  /\ second.ret[1].id = <<"98317", "-chunk-", 0>>
  /\ chunker.ret[2].id = <<"123456", "-chunk-", 1>>

IoDone(fn) == IoIs(fn, "done")

\* C16: validateConfiguration returns false whenever one of the five
\* required variables is missing, and true only when all five are present
\* and the space call and the page call both succeeded.
C16_MissingVariableFails ==
  IoDone("validateConfiguration") =>
    /\ io.env # RequiredVarNames => io.ret = FALSE
    /\ io.ret = TRUE => (io.env = RequiredVarNames /\ io.calls = <<"getSpace", "getContentById">>)

\* C18: saveContentToFile never raises; what it attempts is fs.mkdir on the
\* directory of the path and then, only when that succeeded, fs.writeFile
\* on the path; it returns the path if and only if both succeeded and null
\* otherwise.
C18_SaveReturnsPathOrNull ==
  (io.pc # "idle" /\ io.fn = "saveContentToFile") =>
    /\ ~io.raised
    /\ Len(io.ops) <= 2
    /\ Len(io.ops) >= 1 =>
         (io.ops[1].op = "mkdir" /\ io.ops[1].path = Dirname(io.filePath.path))
    /\ Len(io.ops) = 2 =>
         (io.ops[1].ok /\ io.ops[2].op = "writeFile" /\ io.ops[2].path = io.filePath.path)
    /\ io.pc = "done" =>
         /\ io.ret # Null <=> (Len(io.ops) = 2 /\ io.ops[1].ok /\ io.ops[2].ok)
         /\ io.ret # Null => io.ret = Some(io.filePath.path)

\* C18 witness: the directory was made, the write failed, null was returned
C18_Witness ==
  /\ IoDone("saveContentToFile")
  /\ io.filePath.path = <<"tmp", "test", "file.txt">>
  /\ Len(io.ops) = 2
  /\ io.ops[1] = [op |-> "mkdir", path |-> <<"tmp", "test">>, ok |-> TRUE]
  /\ ~io.ops[2].ok
  /\ io.ret = Null


ScrapeIs == io.pc # "idle" /\ io.fn = "scrapePage"

\* The steps of ops that create a directory, write a file or ask for
\* attachments
OutputSteps(ops) ==
  {i \in 1..Len(ops) : ops[i].op \in {"mkdir", "writeFile", "listAttachments",
                                       "getAttachment", "download"}}

\* C17: when the page fetch fails, scrapePage does not raise and returns
\* null, having created no directory, written no file and requested no
\* attachment; every output step comes after a successful page fetch.
C17_NoOutputWithoutPage ==
  ScrapeIs =>
    /\ ~io.raised
    /\ Len(io.ops) >= 1 => io.ops[1].op = "getPage"
    /\ (Len(io.ops) >= 1 /\ ~io.ops[1].ok) =>
         (io.pc = "done" /\ io.ret = Null /\ Len(io.ops) = 1)
    /\ \A i \in OutputSteps(io.ops) : i > 1 /\ io.ops[1].ok

\* C17 witness: the request for the page failed and null was returned with
\* nothing else done
C17_Witness ==
  /\ IoDone("scrapePage")
  /\ io.ops = <<[op |-> "getPage", path |-> <<<<"content">>, <<"123456">>>>, ok |-> FALSE]>>
  /\ io.ret = Null
  /\ log = <<"[API] Error fetching page", "Failed to scrape page">>

PagedIs(fn) == io.pc # "idle" /\ io.fn = fn

\* The results of the first k responses that were accepted, one response
\* after the other
RECURSIVE ResultsUpTo(_, _)
ResultsUpTo(levels, k) ==
  IF k = 0 THEN <<>>
  ELSE ResultsUpTo(levels, k - 1)
       \o (IF levels[k].response.kind \in {"ok", "noStart"} THEN levels[k].response.results
           ELSE <<>>)

\* C19: getAllPagesInSpace asks with the offsets startAt, startAt+limit,
\* startAt+2*limit, ...; it asks again exactly when the response has a
\* non-zero size and a next link; it returns the results of the fetched pages
\* concatenated in the order of the requests.
C19_PagesInRequestOrder ==
  PagedIs("getAllPagesInSpace") =>
    /\ \A k \in 1..Len(io.levels) :
         /\ io.levels[k].startAt = io.startAt + (k - 1) * io.limit
         /\ (k < Len(io.levels) \/ io.pc = "request") <=>
              LET r == io.levels[k].response
              IN  r.kind = "ok" /\ r.size # 0 /\ r.next
    /\ io.pc = "done" =>
         /\ Len(io.levels) >= 1
         /\ io.ret = ResultsUpTo(io.levels, Len(io.levels))

\* C19 witness: three requests, the second answered with an empty list but a
\* non-zero size, and the results of the first and the third returned
C19_Witness ==
  /\ IoDone("getAllPagesInSpace")
  /\ io.startAt = 5
  /\ Len(io.levels) = 3
  /\ io.levels[3].startAt = 9
  /\ io.levels[2].response.results = <<>>
  /\ io.ret = <<<<1, 1>>, <<1, 2>>, <<3, 1>>>>

SearchTruthful ==
  \A k \in 1..Len(io.levels) : io.levels[k].response.kind = "ok"

\* C20: when every response is the true answer of the server, searchPages
\* asks again exactly when size + start < totalSize, each nested call asks
\* from startAt + limit, and the call returns the results from startAt to the
\* last one, each once and in order: all of them for startAt = 0.
C20_TruthfulSearchReturnsAll ==
  (PagedIs("searchPages") /\ SearchTruthful) =>
    /\ \A k \in 1..Len(io.levels) :
         /\ io.levels[k].startAt = io.startAt + (k - 1) * io.limit
         /\ (k < Len(io.levels) \/ io.pc = "request") <=>
              LET r == io.levels[k].response
              IN  r.size + r.start.value < r.totalSize
    /\ io.pc = "done" =>
         /\ Len(io.ret) = (IF io.total > io.startAt THEN io.total - io.startAt ELSE 0)
         /\ \A j \in 1..Len(io.ret) : io.ret[j] = io.startAt + j - 1

\* C20 witness: three results fetched two at a time, the second response
\* holding one result only
C20_Witness ==
  /\ IoDone("searchPages")
  /\ SearchTruthful
  /\ io.startAt = 0 /\ io.limit = 2 /\ io.total = 3
  /\ Len(io.levels) = 2
  /\ io.levels[2].startAt = 2
  /\ io.levels[2].response.size = 1
  /\ io.ret = <<0, 1, 2>>

\* Some request of the call failed: it was rejected or answered with an error
\* status, or the response had no results array
SomeRequestFailed ==
  \E k \in 1..Len(io.levels) : io.levels[k].response.kind \in {"rejects", "noResults"}

\* C21: when a request of getAllPagesInSpace or searchPages fails, be it the
\* first or the request of a later page, the function does not raise and
\* returns the empty list.
C21_FailureReturnsEmpty ==
  ((IoDone("getAllPagesInSpace") \/ IoDone("searchPages")) /\ SomeRequestFailed) =>
    (~io.raised /\ io.ret = <<>>)

\* The string holds a character that is not whitespace
NotBlank(s) == \E i \in 1..Len(s) : ~IsSpace(s[i])

\* The call has gone through one element of contentSections in this step
ElementStep ==
  /\ chunker.pc = "loop"
  /\ chunker'.pc = "loop"
  /\ chunker'.index = chunker.index + 1

\* C22: on an element that holds a heading the accumulator is emitted as a
\* section chunk if and only if its content is not blank, and afterwards the
\* accumulator's content and label are both the heading's trimmed text; the
\* label is "Main Content" at the start and changes at no other step.
C22_HeadingStartsSection ==
  [][ /\ (chunker.pc = "start" /\ chunker'.pc = "loop") =>
           chunker'.currentChunk = [content |-> <<>>, section |-> <<"Main", SP, "Content">>]
      /\ (ElementStep /\ HeaderOf(chunker) # NullRef) =>
           LET heading == Trim(TextContent(NodeAt(chunker.htmlContent, HeaderOf(chunker))))
               old == chunker.currentChunk
               n == Len(chunker.vectors)
           IN  /\ chunker'.currentChunk = [content |-> heading, section |-> heading]
               /\ IF NotBlank(old.content)
                  THEN /\ Len(chunker'.vectors) = n + 1
                       /\ SubSeq(chunker'.vectors, 1, n) = chunker.vectors
                       /\ chunker'.vectors[n + 1].type = "section"
                       /\ chunker'.vectors[n + 1].content = Trim(old.content)
                       /\ chunker'.vectors[n + 1].metadata.section = old.section
                  ELSE chunker'.vectors = chunker.vectors
      /\ (chunker.pc \in {"loop", "metadata"} /\ ~(ElementStep /\ HeaderOf(chunker) # NullRef)) =>
           chunker'.currentChunk.section = chunker.currentChunk.section
    ]_vars

\* C22 witness: <p>x</p><div><h1>A</h1>...</div>: the div's step emitted the
\* chunk "x" under "Main Content" and left the accumulator at the heading
C22_Witness ==
  /\ chunker.pc = "loop"
  /\ chunker.htmlContent = Root(<<P(<<"x">>), HeadedDiv>>)
  /\ chunker.index = 3
  /\ Len(chunker.vectors) = 1
  /\ chunker.vectors[1].content = <<"x">>
  /\ chunker.vectors[1].metadata.section = <<"Main", SP, "Content">>
  /\ chunker.currentChunk = [content |-> <<"A">>, section |-> <<"A">>]

\* The last of the paragraphs that blank lines split the string into
LastParagraph(s) == SplitParagraphs(s)[Len(SplitParagraphs(s))]

\* The step pushed one section chunk
ChunkPushed ==
  /\ chunker.pc = "loop"
  /\ chunker'.pc \in {"loop", "metadata"}
  /\ Len(chunker'.vectors) = Len(chunker.vectors) + 1

\* The step was a size flush: an element without heading was gone through
\* and a chunk was pushed
SizeFlush == ElementStep /\ HeaderOf(chunker) = NullRef /\ ChunkPushed

\* C23: right after a size flush the accumulator's content is the last
\* paragraph, blank lines delimiting, of the content that was flushed (the
\* chunk holds the content trimmed, so the two are compared trimmed), and its
\* label is the one it had; until the next chunk is emitted the accumulator
\* only grows at its end, and every emitted chunk starts with what the
\* accumulator held before the step and carries the accumulator's label: the
\* chunk after a size flush starts with the last paragraph of the chunk
\* before it and has the same label.
C23_OverlapIsLastParagraph ==
  [][ /\ SizeFlush =>
           LET flushed == chunker'.vectors[Len(chunker'.vectors)] IN
           /\ chunker'.currentChunk.section = chunker.currentChunk.section
           /\ flushed.metadata.section = chunker.currentChunk.section
           /\ Trim(chunker'.currentChunk.content) = Trim(LastParagraph(flushed.content))
           /\ NotBlank(chunker'.currentChunk.content)
      /\ ChunkPushed =>
           LET pushed == chunker'.vectors[Len(chunker'.vectors)] IN
           /\ IsPrefix(Trim(chunker.currentChunk.content), pushed.content)
           /\ pushed.metadata.section = chunker.currentChunk.section
      /\ (ElementStep /\ HeaderOf(chunker) = NullRef /\ ~ChunkPushed) =>
           IsPrefix(chunker.currentChunk.content, chunker'.currentChunk.content)
    ]_vars

\* C23 witness: <p>w999</p><p>x</p>: the second element made the accumulator
\* "w999\n\nx", which was flushed, and the accumulator is "x" under the same
\* label
C23_Witness ==
  /\ chunker.pc = "loop"
  /\ chunker.htmlContent = Root(<<P(<<"w999">>), P(<<"x">>)>>)
  /\ chunker.index = 3
  /\ Len(chunker.vectors) = 2
  /\ chunker.vectors[2].content = <<"w999", NL, NL, "x">>
  /\ chunker.currentChunk = [content |-> <<"x">>, section |-> <<"Main", SP, "Content">>]

\* The element at p lies inside the element at q
Inside(p, q) == Len(q) < Len(p) /\ SubSeq(p, 1, Len(q)) = q

\* C24: the chunker goes once through the div, p, table, ul and ol elements
\* that are children of the body; an element that lies inside another visited
\* element is not visited itself, and no element is visited twice, so a text
\* is appended once at most: <div><p>x</p></div> gives the one chunk "x".
C24_OnlyTopLevelVisited ==
  /\ ChunkerLooping =>
       \A i, j \in 1..Len(chunker.contentSections) :
         i # j => /\ chunker.contentSections[i] # chunker.contentSections[j]
                  /\ ~Inside(chunker.contentSections[i], chunker.contentSections[j])
  /\ (ChunkerDone /\ ~ChunkerFailed /\ chunker.htmlContent = Root(<<PlainDiv>>)) =>
       chunker.ret[1].content = <<"x">>

\* Place of the first chunk of `vs` that carries the label
FirstWith(vs, label) ==
  CHOOSE i \in 1..Len(vs) :
    /\ vs[i].metadata.section = label
    /\ \A j \in 1..(i - 1) : vs[j].metadata.section # label

\* C25: the content of the metadata chunk is a summary whose totalChunks is
\* the number of section chunks of the returned array, whose sections are the
\* labels of those chunks, each once, in the order in which they first occur,
\* and whose title, space key, time of last change and author are those of
\* the page record.
C25_SummaryCountsSections ==
  (ChunkerDone /\ ~ChunkerFailed /\ ~MetadataThrows(chunker.pageMetadata)) =>
    LET r == chunker.ret
        summary == r[Len(r)].content
        chunks == SubSeq(r, 1, Len(r) - 1)
        labels == {chunks[i].metadata.section : i \in 1..Len(chunks)}
        listed == summary.sections
    IN  /\ summary.totalChunks = SectionCount(r)
        /\ {listed[k] : k \in 1..Len(listed)} = labels
        /\ Len(listed) = Cardinality(labels)
        /\ \A k, l \in 1..Len(listed) :
             k < l => FirstWith(chunks, listed[k]) < FirstWith(chunks, listed[l])
        /\ summary.title = chunker.pageMetadata.title
        /\ summary.spaceKey = chunker.pageMetadata.space.key
        /\ summary.lastUpdated = chunker.pageMetadata.version.when
        /\ summary.author = chunker.pageMetadata.version.by.displayName

\* C25 witness: <p>w1500</p> and the headed div: two chunks under "Main
\* Content" and one under "A", summed up as three chunks of two sections
C25_Witness ==
  /\ ChunkerDone /\ ~ChunkerFailed
  /\ chunker.htmlContent = Root(<<P(<<"w1500">>), HeadedDiv>>)
  /\ Len(chunker.ret) = 4
  /\ chunker.ret[2].metadata.section = <<"Main", SP, "Content">>
  /\ chunker.ret[3].metadata.section = <<"A">>
  /\ chunker.ret[4].content.totalChunks = 3
  /\ chunker.ret[4].content.sections = <<<<"Main", SP, "Content">>, <<"A">>>>

\* The li children of the list at p, in document order
ItemsOf(root, p) ==
  SelectSeq([k \in 1..Len(NodeAt(root, p).kids) |-> Append(p, k)],
            LAMBDA q : NodeAt(root, q).tag = "li")

\* One bullet line for each item of the list at p, joined by newlines
BulletLines(root, p) ==
  Join(MapSeq(ItemsOf(root, p),
              LAMBDA li : <<BULLET, SP>> \o Trim(TextContent(NodeAt(root, li)))),
       <<NL>>)

\* C26: a ul or ol is rendered to one bullet line for each of its own items,
\* in document order and joined by newlines; the items of a list nested in an
\* item get no line of their own. Stated for a document that starts with a
\* list: after the first element the accumulator holds those lines.
C26_BulletPerTopLevelItem ==
  (/\ chunker.pc = "loop"
   /\ chunker.index = 2
   /\ NodeAt(chunker.htmlContent, chunker.contentSections[1]).tag \in {"ul", "ol"}) =>
     chunker.currentChunk.content
       = <<NL, NL>> \o BulletLines(chunker.htmlContent, chunker.contentSections[1])

\* The elements of the tag that lie in no list item, in document order
TopLevelLists(root, tag) ==
  SelectSeq(QuerySelectorAll(root, <<>>, {tag}),
            LAMBDA p : \A n \in 1..(Len(p) - 1) : NodeAt(root, SubSeq(p, 1, n)).tag # "li")

\* C27: lists.ordered and lists.unordered hold one group for each ol,
\* respectively ul, that lies in no list item, in document order, and the
\* items of a group are the items of that list itself: a list nested in an
\* item is no group of its own and its items are not items of the list
\* around it.
C27_GroupsAreTopLevelLists ==
  ListsEvaluated =>
    LET groupsOk(tag, groups) ==
          LET tops == TopLevelLists(ParsedRoot, tag) IN
          /\ Len(groups) = Len(tops)
          /\ \A k \in 1..Len(groups) :
               k <= Len(tops) =>
                 /\ Len(groups[k]) = Len(ItemsOf(ParsedRoot, tops[k]))
                 /\ \A j \in 1..Len(groups[k]) :
                      j <= Len(ItemsOf(ParsedRoot, tops[k])) =>
                        groups[k][j].text
                          = Trim(TextContent(NodeAt(ParsedRoot, ItemsOf(ParsedRoot, tops[k])[j])))
    IN  /\ groupsOk("ol", parser.fields["lists"].ordered)
        /\ groupsOk("ul", parser.fields["lists"].unordered)

\* The files scrapePage saves, in the order of its statements
SavedFiles ==
  <<"content.html", "parsed_content.json", "content.txt", "vector_content.json",
    "metadata.json">>

\* Place of a request or file system call in the order of the output steps:
\* the three first files, the listing, the attachments directory, the
\* attachments in the order of the listing, the two last files; 0 for the
\* page request and for the creation of the page directory, which every save
\* repeats
OutputRank(f, o) ==
  LET last == o.path[Len(o.path)]
      n == Len(f.attachments)
      named == {i \in 1..n : last = <<"att", ToString(i)>>}
      attachment == IF named = {} THEN 0 ELSE CHOOSE i \in named : TRUE
  IN  CASE o.op = "listAttachments" -> 4
        [] o.op = "mkdir" /\ o.path = AttachmentsDir(f) -> 5
        [] o.op \in {"getAttachment", "download"} -> 5 + attachment
        [] o.op = "writeFile" /\ Dirname(o.path) = AttachmentsDir(f) -> 5 + attachment
        [] o.op = "writeFile" /\ last = <<"content.html">> -> 1
        [] o.op = "writeFile" /\ last = <<"parsed_content.json">> -> 2
        [] o.op = "writeFile" /\ last = <<"content.txt">> -> 3
        [] o.op = "writeFile" /\ last = <<"vector_content.json">> -> 6 + n
        [] o.op = "writeFile" /\ last = <<"metadata.json">> -> 7 + n
        [] OTHER -> 0

\* The calls of saveContentToFile made so far: each starts by creating the
\* page directory again, after scrapePage created it
SaveAttempts(f) ==
  {i \in 3..Len(f.ops) : f.ops[i].op = "mkdir" /\ f.ops[i].path = PageDir(f)}

CountOps(f, op) == Cardinality({i \in 1..Len(f.ops) : f.ops[i].op = op})

\* The page record has what scrapePage reads from it, and the directories
\* scrapePage creates itself could be created
ScrapeUnhindered(f) ==
  /\ ~f.served.title.isNull /\ f.served.hasBody /\ f.served.hasVersion
  /\ \A i \in 1..Len(f.ops) :
       (f.ops[i].op = "mkdir" /\ i \notin SaveAttempts(f)) => f.ops[i].ok

PagedStarts == {0, 1}
PagedLimits == {1, 2, 50}

PagedCalls ==
  { PagesCalledOn(startAt, limit, total) :
      startAt \in PagedStarts, limit \in PagedLimits, total \in 0..MaxTotal }
  \cup { SearchCalled(startAt, limit, total) :
      startAt \in PagedStarts, limit \in PagedLimits, total \in 0..MaxTotal }

PagedInit ==
  /\ log = <<>>
  /\ chunker = ChunkerIdle
  /\ parser = ParserIdle
  /\ second = SecondIdle
  /\ io \in PagedCalls

\* getAllPagesInSpace: the request of one call, answered by a server that
\* honours start and limit, and what follows from the response; nothing but
\* the response decides whether another request follows
PagesRequestOn ==
  /\ IoIs("getAllPagesInSpace", "request")
  /\ \E r \in PagesResponsesOn(io.total, NextStartAt(io), io.limit) :
       /\ io' = PagesRequestStep(io, r)
       /\ log' = IF PagesValid(r) THEN log ELSE Append(log, "[API] Error fetching pages in space")
  /\ UNCHANGED <<chunker, parser, second>>

PagedNext ==
  \/ PagesRequestOn
  \/ SearchRequest

\* An await whose request is answered goes on: the request that is due is
\* made
PagedSpec == PagedInit /\ [][PagedNext]_vars /\ WF_vars(PagedNext)

MainIs == io.pc # "idle" /\ io.fn = "main"

\* The pages of the events of the kind, in the order of the trace
PagesOf(trace, ev) ==
  MapSeq(SelectSeq(trace, LAMBDA e : e.ev = ev), LAMBDA e : e.page)

\* C29: main scrapes no page unless the connectivity test succeeded first,
\* and when the test fails the process exits with code 1 with no page
\* scraped; the pages are scraped one at a time, a call starting only when
\* the call before it has returned; and a scrapePage call that returns null
\* does not stop the scraping of the pages that remain: when main is through,
\* a call was made for the single page and for every page of the space, in
\* order.
C29_ScrapesAfterTestOneAtATime ==
  MainIs =>
    /\ \A i \in 1..Len(io.trace) :
         /\ (io.trace[i].ev = "test") <=> (i = 1)
         /\ io.trace[i].ev = "start" =>
              /\ io.trace[1].ok
              /\ i > 1
              /\ io.trace[i - 1].ev \in {"test", "end"}
              /\ i < Len(io.trace) => (io.trace[i + 1].ev = "end"
                                       /\ io.trace[i + 1].page = io.trace[i].page)
         /\ io.trace[i].ev = "end" => io.trace[i - 1].ev = "start"
    /\ (Len(io.trace) >= 1 /\ ~io.trace[1].ok) =>
         (io.pc = "exited" /\ io.exit = Some(1) /\ Len(io.trace) = 1)
    /\ io.pc = "exited" => PagesOf(io.trace, "start") = <<>>
    /\ io.pc = "done" =>
         /\ io.exit = Null
         /\ PagesOf(io.trace, "start") = <<<<"98317">>>> \o io.pages
         /\ PagesOf(io.trace, "end") = <<<<"98317">>>> \o io.pages

\* C29 witness: the scrape of the first of the two pages of the space failed
\* and the second page was scraped after it
C29_Witness ==
  /\ IoDone("main")
  /\ Len(io.pages) = 2
  /\ Len(io.trace) = 7
  /\ io.trace[4] = [ev |-> "start", page |-> <<"page", 1>>, ok |-> TRUE]
  /\ io.trace[5] = [ev |-> "end", page |-> <<"page", 1>>, ok |-> FALSE]
  /\ io.trace[6] = [ev |-> "start", page |-> <<"page", 2>>, ok |-> TRUE]
  /\ io.trace[7].ok

\* A response at which the claim has the recursion stop
StopsPages(r) == r.size = 0 \/ ~r.next
StopsSearch(r) == r.size = 0 \/ (~r.start.isNull /\ r.size + r.start.value >= r.totalSize)

PagedOffsetsIncrease ==
  \A k \in 1..Len(io.levels) - 1 : io.levels[k + 1].startAt > io.levels[k].startAt

PagedStopsAtFirst ==
  \A k \in 1..Len(io.levels) :
    LET r == io.levels[k].response
        stops == IF io.fn = "getAllPagesInSpace" THEN StopsPages(r) ELSE StopsSearch(r)
    IN  stops => (k = Len(io.levels) /\ io.pc = "done")

\* C30: against a server whose result set is finite and that honours start
\* and limit (limit >= 1), getAllPagesInSpace and searchPages return: the
\* offset asked for grows with each request, no request follows a response
\* that has zero size, that lacks a next link (getAllPagesInSpace) or whose
\* size + start reaches totalSize (searchPages), and the call ends.
C30_PagedCallsReturn ==
  /\ [](PagedOffsetsIncrease /\ PagedStopsAtFirst)
  /\ <>(io.pc = "done")

\* C30 witness: getAllPagesInSpace with limit 1 asked once more than the
\* server holds pages, which is more than MaxRequests, and returned them all
C30_Witness ==
  /\ IoDone("getAllPagesInSpace")
  /\ io.limit = 1
  /\ io.startAt = 0
  /\ Len(io.levels) = MaxTotal + 1
  /\ Len(io.levels) > MaxRequests
  /\ io.levels[Len(io.levels)].response.size = 0
  /\ Len(io.ret) = MaxTotal

=============================================================================
